---- MODULE Spec2Model ----
(***************************************************************************)
(* Model of the openidb/api search core: the translation coalescer         *)
(* (src/lib/translation-tracker.ts), the TTL cache (src/lib/ttl-cache.ts), *)
(* the Jina embedding provider (src/embeddings/jina.ts, cache.ts) and the  *)
(* standard search path (routes/search/standard-search.ts, index.ts).      *)
(*                                                                         *)
(* Each subsystem has its own specification over the shared variables; a   *)
(* specification leaves the variables of the other subsystems untouched.   *)
(***************************************************************************)
EXTENDS Integers, Sequences, FiniteSets, TLC

VARIABLES
    \* ---- translation coalescer ----
    inflight,      \* the module-level Map: key -> promise id (partial function)
    promises,      \* promise id -> [key, state, cleaned, replaced]
    req,           \* request -> [pc, key, promise]
    everSplit,     \* history: some request suspended between getInflight and setInflight
    \* ---- TTL cache (also the memory tier of the embedding provider) ----
    cache,         \* the Map in iteration (insertion) order: Seq of [key, value, timestamp]
    now,           \* Date.now()
    maxSize, ttlMs, evictionCount,   \* constructor options
    lastOp,        \* the last cache / provider operation and what it returned
    \* ---- embedding provider ----
    persistent,    \* persistent tier: key -> embedding (partial function)
    single,        \* the generateJinaEmbedding call in progress
    batch,         \* the generateJinaEmbeddings call in progress
    promoted,      \* history: keys answered from the persistent tier and not evicted since
    \* ---- callJinaAPI ----
    api,           \* [pc, attempt, input, task, attempts, waits, waited, statuses, result]
    \* ---- standard search request ----
    params,        \* parsed SearchParams (the fields the control flow reads)
    spc,           \* position of the request handler
    embeddingPromise, \* state of embeddingPromise: [state, error]
    branch,        \* branch name -> [state, response]
    gathered,      \* the six values destructured from Promise.all
    output,        \* what executeStandardSearch returned
    response,      \* HTTP response of the route handler
    \* ---- reranker call ----
    rr,
    \* ---- hybrid merge call ----
    merge,
    \* ---- merge phase of a standard search ----
    std,
    \* ---- multi-query dedupe call ----
    mq,
    \* ---- route handler of one request ----
    hd,
    \* ---- text normalization calls ----
    nz,
    \* ---- indexed book ids of the catalog ----
    catalog

trackerVars == <<inflight, promises, req, everSplit>>
cacheVars   == <<cache, now, maxSize, ttlMs, evictionCount, lastOp>>
jinaVars    == <<persistent, single, batch, promoted>>
apiVars     == <<api>>
searchVars  == <<params, spc, embeddingPromise, branch, gathered, output, response>>
rerankVars == <<rr>>
fusionVars == <<merge>>
mergePhaseVars == <<std>>
dedupeVars == <<mq>>
handlerVars == <<hd>>
normalizeVars == <<nz>>
catalogVars == <<catalog>>
vars == <<trackerVars, cacheVars, jinaVars, apiVars, searchVars, rerankVars, fusionVars, mergePhaseVars, dedupeVars, handlerVars, normalizeVars, catalogVars>>

\* what each subsystem leaves alone
notTracker  == <<cacheVars, jinaVars, apiVars, searchVars, rerankVars, fusionVars, mergePhaseVars, dedupeVars, handlerVars, normalizeVars, catalogVars>>
notCache    == <<trackerVars, jinaVars, apiVars, searchVars, rerankVars, fusionVars, mergePhaseVars, dedupeVars, handlerVars, normalizeVars, catalogVars>>
notProvider == <<trackerVars, apiVars, searchVars, rerankVars, fusionVars, mergePhaseVars, dedupeVars, handlerVars, normalizeVars, catalogVars>>
notApi      == <<trackerVars, cacheVars, jinaVars, searchVars, rerankVars, fusionVars, mergePhaseVars, dedupeVars, handlerVars, normalizeVars, catalogVars>>
notRerank   == <<trackerVars, cacheVars, jinaVars, apiVars, searchVars, fusionVars, mergePhaseVars, dedupeVars, handlerVars, normalizeVars, catalogVars>>
notFusion   == <<trackerVars, cacheVars, jinaVars, apiVars, searchVars, rerankVars, mergePhaseVars, dedupeVars, handlerVars, normalizeVars, catalogVars>>
notMergePhase == <<trackerVars, cacheVars, jinaVars, apiVars, searchVars, rerankVars, fusionVars, dedupeVars, handlerVars, normalizeVars, catalogVars>>
notDedupe   == <<trackerVars, cacheVars, jinaVars, apiVars, searchVars, rerankVars, fusionVars, mergePhaseVars, handlerVars, normalizeVars, catalogVars>>
notHandler  == <<trackerVars, cacheVars, jinaVars, apiVars, searchVars, rerankVars, fusionVars, mergePhaseVars, dedupeVars, normalizeVars, catalogVars>>
notNormalize == <<trackerVars, cacheVars, jinaVars, apiVars, searchVars, rerankVars, fusionVars, mergePhaseVars, dedupeVars, handlerVars, catalogVars>>
notCatalog  == <<trackerVars, cacheVars, jinaVars, apiVars, searchVars, rerankVars, fusionVars, mergePhaseVars, dedupeVars, handlerVars, normalizeVars>>
notSearch   == <<trackerVars, cacheVars, jinaVars, apiVars, rerankVars, fusionVars, mergePhaseVars, dedupeVars, handlerVars, normalizeVars, catalogVars>>

(***************************************************************************)
(* Generic helpers                                                         *)
(***************************************************************************)
\* An optional value is a set with at most one element.
Undefined == {}
Some(x) == {x}
The(s) == CHOOSE x \in s : TRUE

Range(f) == {f[x] : x \in DOMAIN f}

\* Map.delete / Map.set on a partial function
MapDelete(m, k) == [x \in DOMAIN m \ {k} |-> m[x]]
MapSet(m, k, v) == [x \in DOMAIN m \cup {k} |-> IF x = k THEN v ELSE m[x]]


(***************************************************************************)
(* Translation coalescer: src/src/lib/translation-tracker.ts               *)
(***************************************************************************)
MaxPromises == 3
MaxRequests == 2

TKeys == {"1:en", "2:en"}
Requests == 1..MaxRequests
PromiseIds == 1..MaxPromises
IdleRequest == [pc |-> "idle", key |-> "1:en", promise |-> Undefined]

\* getInflight(key): inflight.get(key)
GetInflight_AlwaysMiss(key) == Undefined
getInflight(key) == IF key \in DOMAIN inflight THEN Some(inflight[key]) ELSE Undefined

\* The promise a caller creates before registering it (the LLM call starts here).
NewPromise == Cardinality(DOMAIN promises) + 1

\* setInflight(key, promise): inflight.set(key, promise); the finally callback is
\* scheduled and runs as FinallyCallback once the promise has settled.
setInflight(key, p) ==
    /\ inflight' = MapSet(inflight, key, p)
    /\ promises' = [q \in DOMAIN promises \cup {p} |->
                      IF q = p
                      THEN [key |-> key, state |-> "pending", cleaned |-> FALSE,
                            replaced |-> FALSE]
                      ELSE IF key \in DOMAIN inflight /\ inflight[key] = q
                           THEN [promises[q] EXCEPT !.replaced = TRUE]
                           ELSE promises[q]]

\* The body of promise.finally(() => { if (inflight.get(key) === promise) inflight.delete(key) })
FinallyBody_NoGuard(key, p) == MapDelete(inflight, key)
FinallyBody(key, p) ==
    IF getInflight(key) = Some(p) THEN MapDelete(inflight, key) ELSE inflight

\* A request that looks the key up and suspends before it acts on the answer.
RequestCheck(r, k) ==
    /\ req[r].pc = "idle"
    /\ IF getInflight(k) # Undefined
       THEN /\ req' = [req EXCEPT ![r] = [pc |-> "joined", key |-> k,
                                          promise |-> getInflight(k)]]
            /\ UNCHANGED everSplit
       ELSE /\ req' = [req EXCEPT ![r] = [pc |-> "checked", key |-> k,
                                          promise |-> Undefined]]
            /\ everSplit' = TRUE
    /\ UNCHANGED <<inflight, promises>>
    /\ UNCHANGED notTracker

\* ... and registers its own build when it resumes.
RequestRegister(r) ==
    /\ req[r].pc = "checked"
    /\ NewPromise \in PromiseIds
    /\ setInflight(req[r].key, NewPromise)
    /\ req' = [req EXCEPT ![r].pc = "building", ![r].promise = Some(NewPromise)]
    /\ UNCHANGED everSplit
    /\ UNCHANGED notTracker

\* A request that looks the key up and registers a build in one synchronous run.
RequestCheckAndRegister(r, k) ==
    /\ req[r].pc = "idle"
    /\ IF getInflight(k) # Undefined
       THEN /\ req' = [req EXCEPT ![r] = [pc |-> "joined", key |-> k,
                                          promise |-> getInflight(k)]]
            /\ UNCHANGED <<inflight, promises>>
       ELSE /\ NewPromise \in PromiseIds
            /\ setInflight(k, NewPromise)
            /\ req' = [req EXCEPT ![r] = [pc |-> "building", key |-> k,
                                          promise |-> Some(NewPromise)]]
    /\ UNCHANGED everSplit
    /\ UNCHANGED notTracker

\* The LLM call behind promise p resolves or rejects.
Settle(p, outcome) ==
    /\ p \in DOMAIN promises
    /\ promises[p].state = "pending"
    /\ promises' = [promises EXCEPT ![p].state = outcome]
    /\ UNCHANGED <<inflight, req, everSplit>>
    /\ UNCHANGED notTracker

\* The finally callback of a settled promise runs.
FinallyCallback(p) ==
    /\ p \in DOMAIN promises
    /\ promises[p].state # "pending"
    /\ ~promises[p].cleaned
    /\ inflight' = FinallyBody(promises[p].key, p)
    /\ promises' = [promises EXCEPT ![p].cleaned = TRUE]
    /\ UNCHANGED <<req, everSplit>>
    /\ UNCHANGED notTracker

\* A request whose promise has settled answers and ends.
RequestDone(r) ==
    /\ req[r].pc \in {"joined", "building"}
    /\ promises[The(req[r].promise)].state # "pending"
    /\ req' = [req EXCEPT ![r] = IdleRequest]
    /\ UNCHANGED <<inflight, promises, everSplit>>
    /\ UNCHANGED notTracker

(***************************************************************************)
(* TTL cache: src/src/lib/ttl-cache.ts                                     *)
(***************************************************************************)
MaxTime == 3
MaxMaxSize == 2
MaxEvictionCount == 2
MaxTtl == 2

CKeys == {"a", "b", "c"}
CValues == {"v1", "v2"}

\* this.cache.get(key): position of the key in the Map, 0 when absent
IndexOf(c, k) == IF \E i \in 1..Len(c) : c[i].key = k
                 THEN CHOOSE i \in 1..Len(c) : c[i].key = k
                 ELSE 0
Has(c, k) == IndexOf(c, k) # 0
Entry(c, k) == c[IndexOf(c, k)]
CacheKeys(c) == {c[i].key : i \in 1..Len(c)}

\* this.cache.delete(key)
CacheDelete(c, k) == SelectSeq(c, LAMBDA e : e.key # k)

\* this.cache.set(key, {value, timestamp}): an existing key keeps its position
CachePut(c, k, v, t) ==
    IF Has(c, k)
    THEN [c EXCEPT ![IndexOf(c, k)] = [key |-> k, value |-> v, timestamp |-> t]]
    ELSE Append(c, [key |-> k, value |-> v, timestamp |-> t])

\* Date.now() - entry.timestamp > this.ttlMs
Expired_AtTtl(e, t) == t - e.timestamp >= ttlMs
Expired(e, t) == t - e.timestamp > ttlMs

\* evict(): stable sort by timestamp, delete the first evictionCount entries
Before(c, i, j) == \/ c[i].timestamp < c[j].timestamp
                   \/ c[i].timestamp = c[j].timestamp /\ i < j
Evict_Nothing(c) == c
Evict(c) ==
    LET doomed == {i \in 1..Len(c) :
                     Cardinality({j \in 1..Len(c) : Before(c, j, i)}) < evictionCount}
        keys == {c[i].key : i \in doomed}
    IN SelectSeq(c, LAMBDA e : e.key \notin keys)

\* get(key): the cache after the call, and the value returned
GetCache(c, k, t) == IF Has(c, k) /\ Expired(Entry(c, k), t) THEN CacheDelete(c, k) ELSE c
GetResult(c, k, t) == IF Has(c, k) /\ ~Expired(Entry(c, k), t)
                      THEN Some(Entry(c, k).value)
                      ELSE Undefined

\* getMany(keys): the cache after the call, and the Map returned
GetManyCache(c, ks, t) ==
    SelectSeq(c, LAMBDA e : ~(e.key \in Range(ks) /\ Expired(e, t)))
GetManyResult(c, ks, t) ==
    [k \in {x \in Range(ks) : Has(c, x) /\ ~Expired(Entry(c, x), t)} |-> Entry(c, k).value]

\* set(key, value)
SetEvicts_Above(c) == Len(c) > maxSize
SetEvicts(c) == Len(c) >= maxSize
SetCache(c, k, v, t) == CachePut(IF SetEvicts(c) THEN Evict(c) ELSE c, k, v, t)

\* setMany(entries): entries is a sequence of [key, value]
RECURSIVE PutAll(_, _, _)
PutAll(c, es, t) ==
    IF es = <<>> THEN c
    ELSE PutAll(CachePut(c, Head(es).key, Head(es).value, t), Tail(es), t)
SetManyEvicts(c, es) == Len(c) + Len(es) >= maxSize
SetManyCache(c, es, t) == PutAll(IF SetManyEvicts(c, es) THEN Evict(c) ELSE c, es, t)

\* ---- the cache driven by arbitrary callers ----
Set(k, v) ==
    /\ cache' = SetCache(cache, k, v, now)
    /\ lastOp' = [op |-> "set", keys |-> <<k>>, value |-> Some(v), result |-> Undefined,
                  evicted |-> SetEvicts(cache)]
    /\ UNCHANGED <<now, maxSize, ttlMs, evictionCount>>
    /\ UNCHANGED notCache

SetMany(es) ==
    /\ cache' = SetManyCache(cache, es, now)
    /\ lastOp' = [op |-> "setMany", keys |-> [i \in DOMAIN es |-> es[i].key],
                  value |-> Undefined, result |-> Undefined,
                  evicted |-> SetManyEvicts(cache, es)]
    /\ UNCHANGED <<now, maxSize, ttlMs, evictionCount>>
    /\ UNCHANGED notCache

Get(k) ==
    /\ cache' = GetCache(cache, k, now)
    /\ lastOp' = [op |-> "get", keys |-> <<k>>, value |-> Undefined,
                  result |-> GetResult(cache, k, now),
                  evicted |-> FALSE]
    /\ UNCHANGED <<now, maxSize, ttlMs, evictionCount>>
    /\ UNCHANGED notCache

GetMany(ks) ==
    /\ cache' = GetManyCache(cache, ks, now)
    /\ lastOp' = [op |-> "getMany", keys |-> ks, value |-> Undefined,
                  result |-> Range(GetManyResult(cache, ks, now)),
                  evicted |-> FALSE]
    /\ UNCHANGED <<now, maxSize, ttlMs, evictionCount>>
    /\ UNCHANGED notCache

Clear ==
    /\ cache' = <<>>
    /\ lastOp' = [op |-> "clear", keys |-> <<>>, value |-> Undefined, result |-> Undefined,
                  evicted |-> FALSE]
    /\ UNCHANGED <<now, maxSize, ttlMs, evictionCount>>
    /\ UNCHANGED notCache

\* Time passes between calls.
Tick ==
    /\ now < MaxTime
    /\ now' = now + 1
    /\ lastOp' = [op |-> "tick", keys |-> <<>>, value |-> Undefined, result |-> Undefined,
                  evicted |-> FALSE]
    /\ UNCHANGED <<cache, maxSize, ttlMs, evictionCount>>
    /\ UNCHANGED notCache

NoOp == [op |-> "new", keys |-> <<>>, value |-> Undefined, result |-> Undefined,
                  evicted |-> FALSE]
KeyLists == {<<>>} \cup {<<k>> : k \in CKeys} \cup {<<k1, k2>> : k1 \in CKeys, k2 \in CKeys}

(***************************************************************************)
(* Embedding provider: src/src/embeddings/jina.ts over the memory tier     *)
(* (embeddings/cache.ts, a TTLCache) and the persistent tier               *)
(* (embeddings/cache-persistent.ts).                                       *)
(***************************************************************************)
MaxBatch == 3
\* the longest batch issued while single calls are also in flight
MaxSharedBatch == 2
\* the memory tier's options (20_000, 500 and 24 h in cache.ts), scaled down
EmbMaxSize == 3
EmbEvictionCount == 1
EmbTtl == 1
EmbMaxTime == 2

Texts == {"t1", "t2", "t3"}
\* every caller in the repository passes, or defaults to, the query adapter
Tasks == {"retrieval.query"}
CACHE_PREFIX == "jina:"

\* cacheKey(text): CACHE_PREFIX + text
cacheKey(text) == <<CACHE_PREFIX, text>>
TextOf(key) == key[2]
EmbKeys == {cacheKey(t) : t \in Texts}

\* What the back-end computes for one input under one task adapter.
EmbeddingOf(text, task) == <<text, task>>

\* The sequence 1..n, and the positions of a sequence that satisfy a test
Iota(n) == [i \in 1..n |-> i]
Positions(seq, Test(_)) == SelectSeq(Iota(Len(seq)), LAMBDA i : Test(seq[i]))

\* A sequence without its repeated elements (first occurrences, in order)
RECURSIVE Dedup(_)
Dedup(seq) ==
    IF seq = <<>> THEN <<>>
    ELSE <<Head(seq)>> \o Dedup(SelectSeq(Tail(seq), LAMBDA x : x # Head(seq)))

\* ---- persistent tier ----
getPersistentCachedEmbedding(key) ==
    IF key \in DOMAIN persistent THEN Some(persistent[key]) ELSE Undefined
getPersistentCachedEmbeddings(keys) ==
    [k \in Range(keys) \cap DOMAIN persistent |-> persistent[k]]
RECURSIVE PersistAll(_, _)
PersistAll(store, es) ==
    IF es = <<>> THEN store
    ELSE PersistAll(MapSet(store, Head(es).key, Head(es).value), Tail(es))

\* ---- callJinaAPI, the part after a 2xx response ----
\* data.data.sort((a, b) => a.index - b.index)
SortByIndex_Unsorted(data) == data
SortByIndex(data) ==
    LET before(i, j) == \/ data[i].index < data[j].index
                        \/ data[i].index = data[j].index /\ i < j
        rank(i) == Cardinality({j \in 1..Len(data) : before(j, i)}) + 1
    IN [p \in 1..Len(data) |-> data[CHOOSE i \in 1..Len(data) : rank(i) = p]]
\* data.data.map((d) => d.embedding)
ParseResponse(data) == [i \in 1..Len(data) |-> SortByIndex(data)[i].embedding]

\* The bodies the back-end may send for an input: one item per input, in any order.
IndexPermutations(n) == {f \in [1..n -> 1..n] : \A i, j \in 1..n : f[i] = f[j] => i = j}
BackendResponses(input, task) ==
    {[p \in 1..Len(input) |->
        [embedding |-> EmbeddingOf(input[f[p]], task), index |-> f[p] - 1]]
     : f \in IndexPermutations(Len(input))}

\* ---- history: the keys answered from the persistent tier whose memory entry
\* has since seen no eviction, no clear and no deletion on expiry ----
Promoted(evicted, expiredKeys, newKeys) ==
    IF evicted THEN newKeys ELSE (promoted \ expiredKeys) \cup newKeys
ExpiredAmong(c, keys) == {k \in keys : Has(c, k) /\ Expired(Entry(c, k), now)}

ProviderOp(op, keys, fromMemory, looked, sent) ==
    [op |-> op, keys |-> keys, fromMemory |-> fromMemory, looked |-> looked, sent |-> sent]

IdleSingle == [pc |-> "idle", text |-> "t1", task |-> "retrieval.query", result |-> <<>>]
IdleBatch == [pc |-> "idle", texts |-> <<>>, task |-> "retrieval.query",
              cachedMap |-> <<>>, uncachedTexts |-> <<>>,
              uncachedIndices |-> <<>>, result |-> <<>>]
\* A call that has returned or thrown is gone once the provider is entered again.
Retire(call, idle) == IF call.pc = "calling" THEN call ELSE idle

\* ---- generateJinaEmbedding(text, task) up to its await ----
PromoteOne_Skip(c, key, emb) == c
PromoteOne(c, key, emb) == SetCache(c, key, emb, now)

SingleStart(text, task) ==
    LET key == cacheKey(text)
        memCached == GetResult(cache, key, now)
        afterGet == GetCache(cache, key, now)
        persistentCached == getPersistentCachedEmbedding(key)
    IN
    /\ single.pc # "calling"
    /\ IF memCached # Undefined
       THEN /\ single' = [pc |-> "done", text |-> text, task |-> task,
                          result |-> The(memCached)]
            /\ cache' = afterGet
            /\ lastOp' = ProviderOp("single", <<key>>, {key}, {}, <<>>)
            /\ UNCHANGED promoted
       ELSE IF persistentCached # Undefined
       THEN /\ single' = [pc |-> "done", text |-> text, task |-> task,
                          result |-> The(persistentCached)]
            /\ cache' = PromoteOne(afterGet, key, The(persistentCached))
            /\ lastOp' = ProviderOp("single", <<key>>, {}, {key}, <<>>)
            /\ promoted' = Promoted(SetEvicts(afterGet), ExpiredAmong(cache, {key}), {key})
       ELSE /\ single' = [pc |-> "calling", text |-> text, task |-> task,
                          result |-> <<>>]
            /\ cache' = afterGet
            /\ lastOp' = ProviderOp("single", <<key>>, {}, {key}, <<text>>)
            /\ promoted' = Promoted(FALSE, ExpiredAmong(cache, {key}), {})
    /\ batch' = Retire(batch, IdleBatch)
    /\ UNCHANGED <<persistent, now, maxSize, ttlMs, evictionCount>>
    /\ UNCHANGED notProvider

\* callJinaAPI([text], task) returned: cache in both tiers and return
SingleFinish ==
    /\ single.pc = "calling"
    /\ \E data \in BackendResponses(<<single.text>>, single.task) :
        LET key == cacheKey(single.text)
            embedding == ParseResponse(data)[1]
        IN
        /\ cache' = SetCache(cache, key, embedding, now)
        /\ persistent' = MapSet(persistent, key, embedding)
        /\ single' = [single EXCEPT !.pc = "done", !.result = embedding]
        /\ promoted' = Promoted(SetEvicts(cache), {}, {})
        /\ lastOp' = ProviderOp("singleFinish", <<key>>, {}, {}, <<>>)
    /\ batch' = Retire(batch, IdleBatch)
    /\ UNCHANGED <<now, maxSize, ttlMs, evictionCount>>
    /\ UNCHANGED notProvider

\* callJinaAPI threw: the call rejects
SingleFail ==
    /\ single.pc = "calling"
    /\ single' = [single EXCEPT !.pc = "failed"]
    /\ lastOp' = ProviderOp("singleFail", <<>>, {}, {}, <<>>)
    /\ batch' = Retire(batch, IdleBatch)
    /\ UNCHANGED <<cache, persistent, promoted, now, maxSize, ttlMs, evictionCount>>
    /\ UNCHANGED notProvider

\* ---- generateJinaEmbeddings(texts, task) up to its await ----
PromoteMany_Skip(c, entries) == c
PromoteMany(c, entries) == SetManyCache(c, entries, now)

\* The locals of the synchronous part, each computed once:
\*   keys, memCachedMap, notInMemory, persistentCachedMap, cachedMap, uncachedIndices
BatchStart(texts, task) ==
    /\ batch.pc # "calling"
    /\ IF Len(texts) = 0
       THEN /\ batch' = [IdleBatch EXCEPT !.pc = "done", !.task = task]
            /\ lastOp' = ProviderOp("batch", <<>>, {}, {}, <<>>)
            /\ UNCHANGED <<cache, promoted>>
       ELSE
        \E keys \in {[i \in 1..Len(texts) |-> cacheKey(texts[i])]} :
        \E memCachedMap \in {GetManyResult(cache, keys, now)} :
        \E afterGet \in {GetManyCache(cache, keys, now)} :
        \E notInMemory \in {SelectSeq(keys, LAMBDA k : k \notin DOMAIN memCachedMap)} :
        \E persistentCachedMap \in {IF Len(notInMemory) > 0
                                    THEN getPersistentCachedEmbeddings(notInMemory)
                                    ELSE <<>>} :
        \E cachedMap \in {[k \in DOMAIN memCachedMap \cup DOMAIN persistentCachedMap |->
                             IF k \in DOMAIN persistentCachedMap THEN persistentCachedMap[k]
                             ELSE memCachedMap[k]]} :
        \E uncachedIndices \in {Positions(keys, LAMBDA k : k \notin DOMAIN cachedMap)} :
        LET promotedKeys == Dedup(SelectSeq(notInMemory,
                                     LAMBDA k : k \in DOMAIN persistentCachedMap))
            toPromote == [i \in 1..Len(promotedKeys) |->
                            [key |-> promotedKeys[i],
                             value |-> persistentCachedMap[promotedKeys[i]]]]
            promoting == DOMAIN persistentCachedMap # {}
            uncachedTexts == [i \in 1..Len(uncachedIndices) |-> texts[uncachedIndices[i]]]
        IN
        /\ cache' = IF promoting THEN PromoteMany(afterGet, toPromote) ELSE afterGet
        /\ promoted' = Promoted(promoting /\ SetManyEvicts(afterGet, toPromote),
                                ExpiredAmong(cache, Range(keys)),
                                DOMAIN persistentCachedMap)
        /\ lastOp' = ProviderOp("batch", keys, DOMAIN memCachedMap,
                                Range(notInMemory), uncachedTexts)
        /\ batch' = IF Len(uncachedIndices) = 0
                    THEN [IdleBatch EXCEPT !.pc = "done", !.texts = texts, !.task = task,
                            !.result = [i \in 1..Len(keys) |-> cachedMap[keys[i]]]]
                    ELSE [pc |-> "calling", texts |-> texts, task |-> task,
                          cachedMap |-> cachedMap, uncachedTexts |-> uncachedTexts,
                          uncachedIndices |-> uncachedIndices, result |-> <<>>]
    /\ single' = Retire(single, IdleSingle)
    /\ UNCHANGED <<persistent, now, maxSize, ttlMs, evictionCount>>
    /\ UNCHANGED notProvider

\* callJinaAPI(uncachedTexts, task) returned: cache in both tiers, build the result
BatchFinish ==
    /\ batch.pc = "calling"
    /\ \E data \in BackendResponses(batch.uncachedTexts, batch.task) :
       \E newEmbeddings \in {ParseResponse(data)} :
       \E entriesToCache \in {[i \in 1..Len(batch.uncachedTexts) |->
                                 [key |-> cacheKey(batch.uncachedTexts[i]),
                                  value |-> newEmbeddings[i]]]} :
        LET texts == batch.texts
            keys == [i \in 1..Len(texts) |-> cacheKey(texts[i])]
            fresh(i) == CHOOSE j \in 1..Len(batch.uncachedIndices) :
                            batch.uncachedIndices[j] = i
        IN
        /\ cache' = SetManyCache(cache, entriesToCache, now)
        /\ persistent' = PersistAll(persistent, entriesToCache)
        /\ promoted' = Promoted(SetManyEvicts(cache, entriesToCache), {}, {})
        /\ batch' = [IdleBatch EXCEPT
                       !.pc = "done", !.texts = texts, !.task = batch.task,
                       !.uncachedIndices = batch.uncachedIndices,
                       !.result = [i \in 1..Len(texts) |->
                                     IF i \in Range(batch.uncachedIndices)
                                     THEN newEmbeddings[fresh(i)]
                                     ELSE batch.cachedMap[keys[i]]]]
        /\ lastOp' = ProviderOp("batchFinish", keys, {}, {}, <<>>)
    /\ single' = Retire(single, IdleSingle)
    /\ UNCHANGED <<now, maxSize, ttlMs, evictionCount>>
    /\ UNCHANGED notProvider

BatchFail ==
    /\ batch.pc = "calling"
    /\ batch' = [IdleBatch EXCEPT !.pc = "failed", !.texts = batch.texts]
    /\ lastOp' = ProviderOp("batchFail", <<>>, {}, {}, <<>>)
    /\ single' = Retire(single, IdleSingle)
    /\ UNCHANGED <<cache, persistent, promoted, now, maxSize, ttlMs, evictionCount>>
    /\ UNCHANGED notProvider

\* clearCache() of embeddings/cache.ts
ClearCache ==
    /\ cache # <<>>
    /\ cache' = <<>>
    /\ promoted' = {}
    /\ lastOp' = ProviderOp("clear", <<>>, {}, {}, <<>>)
    /\ single' = Retire(single, IdleSingle)
    /\ batch' = Retire(batch, IdleBatch)
    /\ UNCHANGED <<persistent, now, maxSize, ttlMs, evictionCount>>
    /\ UNCHANGED notProvider

ProviderTick ==
    /\ now < EmbMaxTime
    /\ now' = now + 1
    /\ lastOp' = ProviderOp("tick", <<>>, {}, {}, <<>>)
    /\ single' = Retire(single, IdleSingle)
    /\ batch' = Retire(batch, IdleBatch)
    /\ UNCHANGED <<cache, persistent, promoted, maxSize, ttlMs, evictionCount>>
    /\ UNCHANGED notProvider

TextLists(maxLen) == UNION {[1..n -> Texts] : n \in 0..maxLen}

\* The persistent tier survives restarts: it starts with the embeddings of any set
\* of texts cached before (the texts are interchangeable, so one set per size).
PersistentStores ==
    {[k \in {cacheKey(t) : t \in ts} |-> EmbeddingOf(TextOf(k), "retrieval.query")]
     : ts \in {{}, {"t1"}, {"t1", "t2"}, Texts}}

(***************************************************************************)
(* callJinaAPI: src/src/embeddings/jina.ts, the retry loop                 *)
(***************************************************************************)
maxRetries == 8
BackoffBaseMs == 3000
BackoffCapMs == 60000

Statuses == {200, 204, 404, 429, 500}
\* response.ok
Ok(status) == status >= 200 /\ status <= 299

RECURSIVE Pow2(_)
Pow2(n) == IF n = 0 THEN 1 ELSE 2 * Pow2(n - 1)
Min(a, b) == IF a < b THEN a ELSE b
\* Math.min(3000 * Math.pow(2, attempt), 60000)
WaitMs(attempt) == Min(BackoffBaseMs * Pow2(attempt), BackoffCapMs)

\* response.status === 429 && attempt < maxRetries
RetryOn_NoLimit(status, attempt) == status = 429
RetryOn_AnyError(status, attempt) == ~Ok(status) /\ attempt < maxRetries
RetryOn(status, attempt) == status = 429 /\ attempt < maxRetries

\* for (...; attempt <= maxRetries; ...): the next iteration issues fetch, or the
\* loop ends and "max retries exceeded" is thrown
ApiSend ==
    /\ api.pc = "loop"
    /\ IF api.attempt <= maxRetries
       THEN api' = [api EXCEPT !.pc = "awaiting", !.attempts = @ + 1]
       ELSE api' = [api EXCEPT !.pc = "thrown", !.error = "exhausted"]
    /\ UNCHANGED notApi

\* fetch resolved with a response
ApiResponse(status) ==
    /\ api.pc = "awaiting"
    /\ IF RetryOn(status, api.attempt)
       THEN api' = [api EXCEPT !.pc = "wait", !.lastStatus = status,
                               !.waits = @ + 1, !.waited = @ + WaitMs(api.attempt)]
       ELSE IF ~Ok(status)
       THEN api' = [api EXCEPT !.pc = "thrown", !.lastStatus = status, !.error = "http"]
       ELSE \E data \in BackendResponses(api.input, api.task) :
              api' = [api EXCEPT !.pc = "returned", !.lastStatus = status,
                                 !.result = ParseResponse(data)]
    /\ UNCHANGED notApi

\* fetch rejected: network failure, missing API key, or the 15 s abort
ApiFetchRejects ==
    /\ api.pc = "awaiting"
    /\ api' = [api EXCEPT !.pc = "thrown", !.error = "fetch"]
    /\ UNCHANGED notApi

\* the backoff timer fired: continue with attempt++
ApiBackoffOver ==
    /\ api.pc = "wait"
    /\ api' = [api EXCEPT !.pc = "loop", !.attempt = @ + 1]
    /\ UNCHANGED notApi

(***************************************************************************)
(* Standard search: routes/search/standard-search.ts (executeStandardSearch)*)
(* called from the GET / handler of routes/search/index.ts                 *)
(***************************************************************************)
MaxLimit == 2
MIN_BOOK_LIMIT == 5

Modes == {"hybrid", "semantic", "keyword"}
Lexical == {"kwBooks", "kwAyahs", "kwHadiths"}
Semantic == {"semBooks", "semAyahs", "semHadiths"}
Branches == Lexical \cup Semantic
\* what an engine may answer: lists of result keys
Responses == {<<>>, <<1>>, <<2, 1>>}
Errors == {"Collection not found", "other"}

\* Array.prototype.slice(0, n)
Slice(seq, n) == SubSeq(seq, 1, Min(Len(seq), n))

\* shouldSkipKeyword: searchStrategy === 'semantic_only' || mode === "semantic"
shouldSkipKeyword == ~params.arabic \/ params.mode = "semantic"

\* The condition under which a branch is replaced by Promise.resolve([])
Skipped(b) ==
    CASE b = "kwBooks"    -> shouldSkipKeyword \/ ~params.includeBooks
      [] b = "kwAyahs"    -> shouldSkipKeyword \/ params.bookId \/ ~params.includeQuran
      [] b = "kwHadiths"  -> shouldSkipKeyword \/ params.bookId \/ ~params.includeHadith
      [] b = "semBooks"   -> params.mode = "keyword" \/ ~params.includeBooks
      [] b = "semAyahs"   -> params.mode = "keyword" \/ params.bookId \/ ~params.includeQuran
      [] b = "semHadiths" -> params.mode = "keyword" \/ params.bookId \/ ~params.includeHadith

StartBranch(b) == IF Skipped(b) THEN [state |-> "skipped", value |-> <<>>, error |-> "none"]
                  ELSE [state |-> "pending", value |-> <<>>, error |-> "none"]

\* engine(...).then(...).catch(() => []): the promise handed to Promise.all
Caught_NoCatch(p) == p
Caught(p) == IF p.state = "failed" THEN [state |-> "ok", value |-> <<>>, error |-> "none"]
             ELSE p

\* mergeWithRRFGeneric builds resultMap from the semantic list, then adds the keys
\* only the keyword list has; the score order is the subject of the fusion model.
MergeKeys(sem, kw) == sem \o SelectSeq(kw, LAMBDA k : k \notin Range(sem))

\* mergeByMode({include, mode, keywordResults, semanticResults, limit, merge})
mergeByMode(include, mode, kw, sem, limit) ==
    IF ~include THEN <<>>
    ELSE IF mode = "keyword" THEN Slice(kw, limit)
    ELSE IF mode = "semantic" THEN Slice(sem, limit)
    ELSE Slice(MergeKeys(sem, kw), limit)

NoResponse == [status |-> 0, results |-> <<>>, ayahs |-> <<>>, hadiths |-> <<>>,
               thrownBy |-> "none"]
NoOutput == [rankedResults |-> <<>>, ayahsRaw |-> <<>>, hadiths |-> <<>>]
NoGathered == [b \in Branches |-> <<>>]

\* The catch block of the route handler
ErrorResponse(error, thrownBy) ==
    [NoResponse EXCEPT !.status = IF error = "Collection not found" THEN 503 ELSE 500,
                       !.thrownBy = thrownBy]

\* PHASE 1: the handler calls executeStandardSearch, which starts embedding
\* generation and the lexical searches and awaits the embedding.
Phase1 ==
    /\ spc = "start"
    /\ embeddingPromise' = IF params.skipSemantic
                           THEN [state |-> "resolved", error |-> "none"]
                           ELSE [state |-> "pending", error |-> "none"]
    /\ branch' = [b \in Branches |->
                    IF b \in Lexical THEN StartBranch(b) ELSE branch[b]]
    /\ spc' = "awaitEmbedding"
    /\ UNCHANGED <<params, gathered, output, response>>
    /\ UNCHANGED notSearch

EmbeddingSettles(ok, error) ==
    /\ embeddingPromise.state = "pending"
    /\ embeddingPromise' = IF ok THEN [state |-> "resolved", error |-> "none"]
                           ELSE [state |-> "rejected", error |-> error]
    /\ UNCHANGED <<params, spc, branch, gathered, output, response>>
    /\ UNCHANGED notSearch

\* what an engine call may reject with: "Collection not found" is the vector
\* store's message for a missing collection
BranchErrors(b) == IF b \in Semantic THEN Errors ELSE {"other"}

\* One engine call resolves with a list or rejects.
BranchSettles(b, ok, value, error) ==
    /\ branch[b].state = "pending"
    /\ error \in BranchErrors(b)
    /\ branch' = [branch EXCEPT ![b] =
                    IF ok THEN [state |-> "ok", value |-> value, error |-> "none"]
                    ELSE [state |-> "failed", value |-> <<>>, error |-> error]]
    /\ UNCHANGED <<params, spc, embeddingPromise, gathered, output, response>>
    /\ UNCHANGED notSearch

\* await embeddingPromise resumes. PHASE 2 starts the semantic searches; a
\* rejection leaves executeStandardSearch and reaches the handler's catch.
\* const queryEmbedding = await embeddingPromise: resumes once it has settled
EmbeddingAwaited_NoAwait == TRUE
EmbeddingAwaited == embeddingPromise.state # "pending"

Phase2 ==
    /\ spc = "awaitEmbedding"
    /\ EmbeddingAwaited
    /\ IF embeddingPromise.state = "rejected"
       THEN /\ spc' = "responded"
            /\ response' = ErrorResponse(embeddingPromise.error, "executeStandardSearch")
            /\ UNCHANGED branch
       ELSE /\ spc' = "awaitAll"
            /\ branch' = [b \in Branches |->
                            IF b \in Semantic THEN StartBranch(b) ELSE branch[b]]
            /\ UNCHANGED response
    /\ UNCHANGED <<params, embeddingPromise, gathered, output>>
    /\ UNCHANGED notSearch

\* PHASE 3: await Promise.all of the six promises, then merge per domain.
Phase3 ==
    LET settled == [b \in Branches |-> Caught(branch[b])]
        g == [b \in Branches |-> settled[b].value]
        books == IF ~params.includeBooks THEN <<>>
                 ELSE IF params.mode = "keyword" THEN Slice(g["kwBooks"], params.limit)
                 ELSE IF params.mode = "semantic" THEN Slice(g["semBooks"], params.limit)
                 ELSE Slice(MergeKeys(g["semBooks"], g["kwBooks"]), MIN_BOOK_LIMIT)
    IN
    /\ spc = "awaitAll"
    /\ IF \E b \in Branches : settled[b].state = "failed"
       THEN /\ spc' = "responded"
            /\ response' = ErrorResponse("other", "executeStandardSearch")
            /\ UNCHANGED <<gathered, output>>
       ELSE /\ \A b \in Branches : settled[b].state # "pending"
            /\ gathered' = g
            /\ output' = [rankedResults |-> books,
                          ayahsRaw |-> mergeByMode(~params.bookId /\ params.includeQuran,
                                                   params.mode, g["kwAyahs"], g["semAyahs"],
                                                   params.limit),
                          hadiths |-> mergeByMode(~params.bookId /\ params.includeHadith,
                                                  params.mode, g["kwHadiths"], g["semHadiths"],
                                                  params.limit)]
            /\ spc' = "returned"
            /\ UNCHANGED response
    /\ UNCHANGED <<params, embeddingPromise, branch>>
    /\ UNCHANGED notSearch

\* The rest of the handler: graph, authors, translations, book details, c.json(...)
Respond(ok) ==
    /\ spc = "returned"
    /\ spc' = "responded"
    /\ response' = IF ok
                   THEN [status |-> 200,
                         results |-> Slice(output.rankedResults, params.limit),
                         ayahs |-> output.ayahsRaw, hadiths |-> output.hadiths,
                         thrownBy |-> "none"]
                   ELSE ErrorResponse("other", "handler")
    /\ UNCHANGED <<params, embeddingPromise, branch, gathered, output>>
    /\ UNCHANGED notSearch

(***************************************************************************)
(* Reranker (src/unnamed/part_007 from line 106): rerank, rerankWithLLM,   *)
(* parseLLMRanking, rerankUnifiedRefine                                    *)
(***************************************************************************)
MaxCandidates == 3
MaxTopN == 3
MaxTypeLen == 2
MaxTypeLimit == 2
MaxRanking == 3
MaxUnifiedRanking == 2

Rerankers == {"none", "gpt-oss-20b", "gpt-oss-120b", "gemini-flash", "other"}
DocTypes == <<"book", "ayah", "hadith">>
\* a candidate list of n distinct items, named by their position in the input
Candidates(n) == [i \in 1..n |-> [id |-> i, rank |-> 0]]
\* what the LLM endpoint may do: the fetch aborts on the deadline, fails in the
\* network, answers non-2xx, or answers 2xx with a body
ReplyKinds == {"abort", "network", "status", "nomatch", "badjson", "ranking"}
Rankings(maxDoc, maxLen) == UNION {[1..n -> 0..maxDoc] : n \in 0..maxLen}
Replies(maxDoc, maxLen) ==
    {[kind |-> k, ranking |-> <<>>] : k \in ReplyKinds \ {"ranking"}}
    \cup {[kind |-> "ranking", ranking |-> r] : r \in Rankings(maxDoc, maxLen)}

\* results.slice(0, topN): what every early return and the catch block hand back
Fallback_All(results, topN) == results
Fallback(results, topN) == Slice(results, topN)

\* the name of the error the try block throws for a reply, "none" if it does not
ThrownName(reply) ==
    CASE reply.kind = "abort"   -> "AbortError"
      [] reply.kind = "network" -> "TypeError"
      [] reply.kind = "status"  -> "Error"
      [] reply.kind = "badjson" -> "SyntaxError"
      [] OTHER                  -> "none"
\* const timedOut = err instanceof Error && err.name === 'AbortError'
CaughtTimedOut_Always(name) == TRUE
CaughtTimedOut(name) == name = "AbortError"

\* parseLLMRanking, first loop: the ranked documents that exist, without repeats
RECURSIVE PickRanked(_, _, _)
PickRanked(ranking, results, reranked) ==
    IF ranking = <<>> THEN reranked
    ELSE LET idx == Head(ranking) - 1
             take == idx >= 0 /\ idx < Len(results)
                     /\ results[idx + 1] \notin Range(reranked)
         IN PickRanked(Tail(ranking), results,
                       IF take THEN Append(reranked, results[idx + 1]) ELSE reranked)
\* parseLLMRanking, second loop: fill up with the unranked ones in input order
RECURSIVE FillUp(_, _, _)
FillUp(results, reranked, topN) ==
    IF results = <<>> \/ Len(reranked) >= topN THEN reranked
    ELSE FillUp(Tail(results),
                IF Head(results) \notin Range(reranked)
                THEN Append(reranked, Head(results)) ELSE reranked,
                topN)
parseLLMRanking_NoFill(ranking, results, topN) ==
    Slice(PickRanked(Slice(ranking, topN), results, <<>>), topN)
parseLLMRanking(ranking, results, topN) ==
    Slice(FillUp(results, PickRanked(Slice(ranking, topN), results, <<>>), topN), topN)

\* rerankWithLLM after its await, for one reply of the endpoint
RerankWithLLMResult(results, topN, reply) ==
    IF ThrownName(reply) # "none"
    THEN [results |-> Fallback(results, topN), timedOut |-> CaughtTimedOut(ThrownName(reply))]
    ELSE IF reply.kind = "nomatch"
    THEN [results |-> Fallback(results, topN), timedOut |-> FALSE]
    ELSE [results |-> parseLLMRanking(reply.ranking, results, topN), timedOut |-> FALSE]

\* rerank / rerankWithLLM before the await: TRUE when they return without a call
RerankSkipsLLM(results, reranker, hasKey) ==
    \/ Len(results) = 0
    \/ reranker \notin {"gpt-oss-20b", "gpt-oss-120b", "gemini-flash"}
    \/ ~hasKey

IdleRerank == [pc |-> "idle", fn |-> "none", reranker |-> "none", results |-> <<>>,
               topN |-> 1, lists |-> <<<<>>, <<>>, <<>>>>, limits |-> <<1, 1, 1>>,
               reply |-> "none", ranking |-> <<>>, out |-> <<>>, outLists |-> <<<<>>, <<>>, <<>>>>,
               timedOut |-> FALSE]

\* rerank(query, results, getText, topN, reranker)
RerankCall(n, topN, reranker, hasKey) ==
    /\ rr.pc = "idle"
    /\ rr' = IF RerankSkipsLLM(Candidates(n), reranker, hasKey)
             THEN [IdleRerank EXCEPT !.pc = "done", !.fn = "rerank", !.reranker = reranker,
                                     !.results = Candidates(n), !.topN = topN,
                                     !.out = Fallback(Candidates(n), topN)]
             ELSE [IdleRerank EXCEPT !.pc = "awaiting", !.fn = "rerank",
                                     !.reranker = reranker,
                                     !.results = Candidates(n), !.topN = topN]
    /\ UNCHANGED notRerank

\* the fetch of rerankWithLLM settles
RerankReply(reply) ==
    /\ rr.pc = "awaiting" /\ rr.fn = "rerank"
    /\ rr' = [rr EXCEPT !.pc = "done", !.reply = reply.kind, !.ranking = reply.ranking,
                        !.out = RerankWithLLMResult(rr.results, rr.topN, reply).results,
                        !.timedOut = RerankWithLLMResult(rr.results, rr.topN, reply).timedOut]
    /\ UNCHANGED notRerank

\* ---- rerankUnifiedRefine ----
\* the three slices packed into one list of [type, index]
Unified(lists, limits) ==
    LET part(t) == [i \in 1..Len(Slice(lists[t], limits[t])) |-> [type |-> t, index |-> i]]
    IN part(1) \o part(2) \o part(3)
UnifiedFallback(lists, limits) == [t \in 1..3 |-> Fallback(lists[t], limits[t])]

\* the distribution loop over the ranking
RECURSIVE Distribute(_, _, _, _, _)
Distribute(ranking, unified, lists, limits, acc) ==
    IF ranking = <<>> THEN acc
    ELSE LET idx == Head(ranking) - 1
             rank == Len(acc[1]) + Len(acc[2]) + Len(acc[3]) + 1
         IN IF idx < 0 \/ idx >= Len(unified)
            THEN Distribute(Tail(ranking), unified, lists, limits, acc)
            ELSE LET doc == unified[idx + 1]
                 IN IF Len(acc[doc.type]) < limits[doc.type]
                    THEN Distribute(Tail(ranking), unified, lists, limits,
                            [acc EXCEPT ![doc.type] =
                                Append(@, [lists[doc.type][doc.index] EXCEPT !.rank = rank])])
                    ELSE Distribute(Tail(ranking), unified, lists, limits, acc)

UnifiedResult(lists, limits, reply) ==
    IF ThrownName(reply) \in {"AbortError", "TypeError", "SyntaxError"}
    THEN [lists |-> UnifiedFallback(lists, limits),
          timedOut |-> CaughtTimedOut(ThrownName(reply))]
    ELSE IF reply.kind \in {"status", "nomatch"}
    THEN [lists |-> UnifiedFallback(lists, limits), timedOut |-> FALSE]
    ELSE [lists |-> Distribute(reply.ranking, Unified(lists, limits), lists, limits,
                               <<<<>>, <<>>, <<>>>>),
          timedOut |-> FALSE]

UnifiedSkipsLLM(lists, limits, reranker) ==
    reranker = "none" \/ Len(Unified(lists, limits)) < 3

\* rerankUnifiedRefine(query, ayahs, hadiths, books, bookMetaMap, limits, reranker)
UnifiedCall(lens, limits, reranker) ==
    /\ rr.pc = "idle"
    /\ \E lists \in {[t \in 1..3 |-> Candidates(lens[t])]} :
        rr' = IF UnifiedSkipsLLM(lists, limits, reranker)
              THEN [IdleRerank EXCEPT !.pc = "done", !.fn = "unified", !.reranker = reranker,
                                      !.lists = lists, !.limits = limits,
                                      !.outLists = UnifiedFallback(lists, limits)]
              ELSE [IdleRerank EXCEPT !.pc = "awaiting", !.fn = "unified",
                                      !.reranker = reranker,
                                      !.lists = lists, !.limits = limits]
    /\ UNCHANGED notRerank

\* the fetch of rerankUnifiedRefine settles
UnifiedReply(reply) ==
    /\ rr.pc = "awaiting" /\ rr.fn = "unified"
    /\ rr' = [rr EXCEPT !.pc = "done", !.reply = reply.kind, !.ranking = reply.ranking,
                        !.outLists = UnifiedResult(rr.lists, rr.limits, reply).lists,
                        !.timedOut = UnifiedResult(rr.lists, rr.limits, reply).timedOut]
    /\ UNCHANGED notRerank

(***************************************************************************)
(* Fusion core: src/routes/search/fusion.ts (mergeWithRRFGeneric)          *)
(* Scores are integers: a score s stands for s / 10000, a fused score f    *)
(* for f / 100000; an RRF score is the fraction <<num, den>>.              *)
(***************************************************************************)
MaxListLen == 2
RRF_K == 60
SEMANTIC_WEIGHT == 8
KEYWORD_WEIGHT == 3
FLOAT_TOLERANCE == 100

FusionKeys == {"k1", "k2", "k3"}
\* cosine scores of the vector engine and normalized BM25 scores of the lexical
\* engine; each engine lists its hits best first and numbers them from 1
SemanticScores == {5016, 5020}
NormalizedBM25 == {3290, 5008}
DistinctKeyLists == {ks \in (UNION {[1..n -> FusionKeys] : n \in 0..MaxListLen}) :
                        \A i, j \in DOMAIN ks : ks[i] = ks[j] => i = j}
Descending(xs) == \A i, j \in DOMAIN xs : i < j => xs[i] >= xs[j]
ScoreLists(n, values) == {xs \in [1..n -> values] : Descending(xs)}
SemanticLists ==
    {[i \in DOMAIN ks |->
        [key |-> ks[i], semanticRank |-> IF ranked THEN Some(i) ELSE Undefined,
         semanticScore |-> Some(xs[i]), keywordRank |-> Undefined, bm25 |-> Undefined]]
     : <<ks, xs, ranked>> \in
         {<<ks, xs, ranked>> \in DistinctKeyLists
                                  \X (UNION {ScoreLists(n, SemanticScores) : n \in 0..MaxListLen})
                                  \X BOOLEAN : Len(ks) = Len(xs)}}
KeywordLists ==
    {[i \in DOMAIN ks |->
        [key |-> ks[i], semanticRank |-> Undefined, semanticScore |-> Undefined,
         keywordRank |-> IF ranked THEN Some(i) ELSE Undefined, bm25 |-> Some(xs[i])]]
     : <<ks, xs, ranked>> \in
         {<<ks, xs, ranked>> \in DistinctKeyLists
                                  \X (UNION {ScoreLists(n, NormalizedBM25) : n \in 0..MaxListLen})
                                  \X BOOLEAN : Len(ks) = Len(xs)}}

\* x ?? 0
OrZero(opt) == IF opt = Undefined THEN 0 ELSE The(opt)

\* calculateRRFScore([semanticRank, keywordRank]) as a fraction
calculateRRFScore(semanticRank, keywordRank) ==
    IF semanticRank # Undefined /\ keywordRank # Undefined
    THEN <<(RRF_K + The(semanticRank)) + (RRF_K + The(keywordRank)),
           (RRF_K + The(semanticRank)) * (RRF_K + The(keywordRank))>>
    ELSE IF semanticRank # Undefined THEN <<1, RRF_K + The(semanticRank)>>
    ELSE IF keywordRank # Undefined THEN <<1, RRF_K + The(keywordRank)>>
    ELSE <<0, 1>>

\* calculateFusedScore(hasSemantic, hasKeyword, semanticScore, bm25Score, keywordScore),
\* bm25 being the normalized BM25 score
calculateFusedScore(hasSemantic, hasKeyword, semanticScore, bm25) ==
    IF hasSemantic /\ hasKeyword
    THEN SEMANTIC_WEIGHT * semanticScore + KEYWORD_WEIGHT * bm25
    ELSE IF hasSemantic THEN 10 * semanticScore
    ELSE 10 * bm25

\* the second loop's update of an entry the semantic list already made
MergeExisting_KeepsEntry(existing, item) == existing
MergeExisting(existing, item) ==
    [existing EXCEPT !.keywordRank = item.keywordRank, !.bm25 = item.bm25]

\* resultMap after both loops, in insertion order
RECURSIVE PutAllResults(_, _)
PutAllResults(resultMap, items) ==
    IF items = <<>> THEN resultMap
    ELSE LET item == Head(items)
             at == {i \in DOMAIN resultMap : resultMap[i].key = item.key}
         IN PutAllResults(
              IF at = {} THEN Append(resultMap, item)
              ELSE [resultMap EXCEPT ![The(at)] = MergeExisting(@, item)],
              Tail(items))
RECURSIVE SetAllResults(_, _)
SetAllResults(resultMap, items) ==
    IF items = <<>> THEN resultMap
    ELSE LET item == Head(items)
             at == {i \in DOMAIN resultMap : resultMap[i].key = item.key}
         IN SetAllResults(
              IF at = {} THEN Append(resultMap, item)
              ELSE [resultMap EXCEPT ![The(at)] = item],
              Tail(items))
ResultMap(sem, kw) == PutAllResults(SetAllResults(<<>>, sem), kw)

\* merged: every entry with its fused and RRF scores
Scored(item) ==
    [key |-> item.key, semanticRank |-> item.semanticRank, keywordRank |-> item.keywordRank,
     fusedScore |-> calculateFusedScore(item.semanticRank # Undefined,
                                        item.keywordRank # Undefined,
                                        OrZero(item.semanticScore), OrZero(item.bm25)),
     rrfScore |-> calculateRRFScore(item.semanticRank, item.keywordRank)]

\* the sort comparator: negative when a goes first, positive when b does
Sign(x) == IF x > 0 THEN 1 ELSE IF x < 0 THEN -1 ELSE 0
Abs(x) == IF x < 0 THEN -x ELSE x
CompareFn_FusedOnly(a, b) == Sign(b.fusedScore - a.fusedScore)
CompareFn(a, b) ==
    IF Abs(b.fusedScore - a.fusedScore) > FLOAT_TOLERANCE
    THEN Sign(b.fusedScore - a.fusedScore)
    ELSE Sign(b.rrfScore[1] * a.rrfScore[2] - a.rrfScore[1] * b.rrfScore[2])

\* Array.prototype.sort: with a consistent comparator the stable sorted order,
\* otherwise an implementation-defined order
Consistent(items) ==
    \A a, b, c \in Range(items) :
        /\ CompareFn(a, b) = -CompareFn(b, a)
        /\ (CompareFn(a, b) = 0 /\ CompareFn(b, c) = 0) => CompareFn(a, c) = 0
        /\ (CompareFn(a, b) < 0 /\ CompareFn(b, c) < 0) => CompareFn(a, c) < 0
        /\ (CompareFn(a, b) = 0 /\ CompareFn(b, c) < 0) => CompareFn(a, c) < 0
        /\ (CompareFn(a, b) < 0 /\ CompareFn(b, c) = 0) => CompareFn(a, c) < 0
StableSorted(items) ==
    LET before(i, j) == \/ CompareFn(items[i], items[j]) < 0
                        \/ CompareFn(items[i], items[j]) = 0 /\ i < j
        place(i) == Cardinality({j \in DOMAIN items : before(j, i)}) + 1
    IN [p \in DOMAIN items |-> items[CHOOSE i \in DOMAIN items : place(i) = p]]
SortOutcomes(items) ==
    IF Consistent(items) THEN {StableSorted(items)}
    ELSE {[p \in DOMAIN items |-> items[f[p]]] : f \in IndexPermutations(Len(items))}

\* getMatchType(result)
getMatchType(result) ==
    IF result.semanticRank # Undefined /\ result.keywordRank # Undefined THEN "both"
    ELSE IF result.semanticRank # Undefined THEN "semantic"
    ELSE "keyword"

IdleMerge == [pc |-> "idle", sem |-> <<>>, kw |-> <<>>, out |-> <<>>, matchTypes |-> <<>>]

\* mergeWithRRFGeneric(semanticResults, keywordResults, getKey, query)
MergeWithRRF ==
    /\ merge.pc = "called"
    /\ \E merged \in {[i \in DOMAIN ResultMap(merge.sem, merge.kw) |->
                         Scored(ResultMap(merge.sem, merge.kw)[i])]} :
       \E sorted \in SortOutcomes(merged) :
          merge' = [merge EXCEPT !.pc = "merged", !.out = sorted]
    /\ UNCHANGED notFusion

\* formatSearchResults: the match type of every merged item
FormatResults ==
    /\ merge.pc = "merged"
    /\ merge' = [merge EXCEPT !.pc = "formatted",
                              !.matchTypes = [i \in DOMAIN merge.out |->
                                                getMatchType(merge.out[i])]]
    /\ UNCHANGED notFusion

(***************************************************************************)
(* PHASE 3 of executeStandardSearch with the items' score fields           *)
(* A raw BM25 score s stands for s itself, a normalized one n for n/10000. *)
(***************************************************************************)
MaxHits == 2
MaxHybridHits == 1
MaxStdLimit == 2
BM25_NORM_K == 8

Domains == {"books", "ayahs", "hadiths"}
HitKeys == {"k1", "k2"}
RawScores == {8, 24}
CosineScores == {5016, 5020}

\* normalizeBM25Score(score, k = BM25_NORM_K): s / (s + k)
normalizeBM25Score(score) == (10000 * score) \div (score + BM25_NORM_K)

HitKeyLists(maxLen) == {ks \in (UNION {[1..n -> HitKeys] : n \in 0..maxLen}) :
                           \A i, j \in DOMAIN ks : ks[i] = ks[j] => i = j}
\* what a lexical search returns: hits best first, each with its raw score and
\* its rank, with or without a separate bm25Score
LexicalHits(maxLen, withoutBm25) ==
    {[i \in DOMAIN ks |->
        [key |-> ks[i], score |-> xs[i], keywordRank |-> Some(i),
         bm25Score |-> IF bm THEN Some(xs[i]) ELSE Undefined]]
     : <<ks, xs, bm>> \in
         {<<ks, xs, bm>> \in HitKeyLists(maxLen)
                              \X (UNION {ScoreLists(n, RawScores) : n \in 0..maxLen})
                              \X ({TRUE} \cup {~b : b \in withoutBm25}) : Len(ks) = Len(xs)}}
\* what a semantic search returns
SemanticHits(maxLen) ==
    {[i \in DOMAIN ks |->
        [key |-> ks[i], score |-> xs[i], semanticRank |-> Some(i),
         semanticScore |-> Some(xs[i])]]
     : <<ks, xs>> \in
         {<<ks, xs>> \in HitKeyLists(maxLen)
                          \X (UNION {ScoreLists(n, CosineScores) : n \in 0..maxLen})
                          : Len(ks) = Len(xs)}}

\* normalizeKeyword: items.map(a => ({ ...a, score: normalizeBM25Score(a.bm25Score ?? a.score ?? 0) }))
normalizeKeyword(items) ==
    [i \in DOMAIN items |->
        [items[i] EXCEPT !.score = normalizeBM25Score(
            IF items[i].bm25Score # Undefined THEN The(items[i].bm25Score)
            ELSE items[i].score)]]

\* the two lists as mergeWithRRFGeneric reads them
HybridMerged(sem, kw) ==
    LET semIn == [i \in DOMAIN sem |->
                    [key |-> sem[i].key, semanticRank |-> sem[i].semanticRank,
                     semanticScore |-> sem[i].semanticScore,
                     keywordRank |-> Undefined, bm25 |-> Undefined]]
        kwIn == [i \in DOMAIN kw |->
                    [key |-> kw[i].key, semanticRank |-> Undefined,
                     semanticScore |-> Undefined, keywordRank |-> kw[i].keywordRank,
                     bm25 |-> Some(normalizeBM25Score(The(kw[i].bm25Score)))]]
    IN [i \in DOMAIN ResultMap(semIn, kwIn) |-> Scored(ResultMap(semIn, kwIn)[i])]

\* mergeByMode with the ayah / hadith normalizeKeyword; merged is what merge() returns
MergeByModeScored(include, mode, kw, sem, limit, merged) ==
    IF ~include THEN <<>>
    ELSE IF mode = "keyword" THEN Slice(normalizeKeyword(kw), limit)
    ELSE IF mode = "semantic" THEN Slice(sem, limit)
    ELSE Slice(merged, limit)

\* the book branch: if (!includeBooks) ... else if (mode === "keyword") ...
BooksByMode(include, mode, kw, sem, limit, bookLimit, merged) ==
    IF ~include THEN <<>>
    ELSE IF mode = "keyword" THEN Slice(kw, limit)
    ELSE IF mode = "semantic" THEN Slice(sem, limit)
    ELSE Slice(merged, bookLimit)

NoLists == [d \in Domains |-> <<>>]
IdleStd == [pc |-> "idle", mode |-> "hybrid", include |-> [d \in Domains |-> TRUE],
            bookId |-> FALSE, limit |-> 1, kw |-> NoLists, sem |-> NoLists,
            out |-> NoLists]

\* a domain's searches run unless its include flag is off or, for ayahs and
\* hadiths, a bookId is given; skipped searches are Promise.resolve([])
DomainSearched(s, d) == s.include[d] /\ (d = "books" \/ ~s.bookId)
\* the lists a domain's two searches can have resolved with
AwaitedLists(mode, searched) ==
    IF ~searched THEN {<<>>} \X {<<>>}
    ELSE IF mode = "keyword" THEN LexicalHits(MaxHits, {TRUE}) \X {<<>>}
    ELSE IF mode = "semantic" THEN {<<>>} \X SemanticHits(MaxHits)
    ELSE LexicalHits(MaxHybridHits, {}) \X SemanticHits(MaxHybridHits)

\* merge: () => mergeWithRRFGeneric(...), called in hybrid mode only
MergeOutcomes(mode, sem, kw) ==
    IF mode = "hybrid" THEN SortOutcomes(HybridMerged(sem, kw)) ELSE {<<>>}

\* lines 144-171: the per-domain merge
MergePhase ==
    /\ std.pc = "awaited"
    /\ \E mb \in MergeOutcomes(std.mode, std.sem["books"], std.kw["books"]),
          ma \in MergeOutcomes(std.mode, std.sem["ayahs"], std.kw["ayahs"]),
          mh \in MergeOutcomes(std.mode, std.sem["hadiths"], std.kw["hadiths"]) :
          std' = [std EXCEPT
                    !.pc = "merged",
                    !.out = [d \in Domains |->
                       IF d = "books"
                       THEN BooksByMode(std.include[d], std.mode, std.kw[d], std.sem[d],
                                        std.limit, MIN_BOOK_LIMIT, mb)
                       ELSE MergeByModeScored(~std.bookId /\ std.include[d], std.mode,
                                              std.kw[d], std.sem[d], std.limit,
                                              IF d = "ayahs" THEN ma ELSE mh)]]
    /\ UNCHANGED notMergePhase

(***************************************************************************)
(* Multi-query dedupe: src/routes/search/fusion.ts                         *)
(* (mergeAndDeduplicateGeneric). A weight w stands for w / 100, a weighted *)
(* RRF score is the fraction <<num, den>> of such units.                   *)
(***************************************************************************)
MaxVariants == 2
MaxVariantLen == 2
VariantWeights == {1, 100}

VariantLists ==
    {[i \in DOMAIN ks |-> [key |-> ks[i], semanticScore |-> Some(xs[i])]]
     : <<ks, xs>> \in
         {<<ks, xs>> \in {l \in DistinctKeyLists : Len(l) <= MaxVariantLen}
                          \X (UNION {[1..n -> SemanticScores] : n \in 0..MaxVariantLen})
                          : Len(ks) = Len(xs)}}

RatAdd(a, b) == <<a[1] * b[2] + b[1] * a[2], a[2] * b[2]>>
RatLess(a, b) == a[1] * b[2] < b[1] * a[2]

\* const rrfContribution = weight / (RRF_K + rank + 1), rank counted from 0
rrfContribution_RankFromOne(weight, rank) == <<weight, RRF_K + rank>>
rrfContribution(weight, rank) == <<weight, RRF_K + rank + 1>>

\* keepBest(existing, incoming, 'semanticScore')
keepBest(existing, incoming) ==
    IF incoming # Undefined /\ (existing = Undefined \/ The(incoming) > The(existing))
    THEN incoming ELSE existing

\* the inner loop over one variant's results, from 0-based rank on
RECURSIVE AccumulateList(_, _, _, _)
AccumulateList(merged, results, weight, rank) ==
    IF rank >= Len(results) THEN merged
    ELSE LET result == results[rank + 1]
             at == {i \in DOMAIN merged : merged[i].key = result.key}
         IN AccumulateList(
              IF at = {}
              THEN Append(merged, [key |-> result.key, semanticScore |-> result.semanticScore,
                                   weightedRrfScore |-> rrfContribution(weight, rank)])
              ELSE [merged EXCEPT ![The(at)] =
                      [@ EXCEPT !.weightedRrfScore = RatAdd(@, rrfContribution(weight, rank)),
                                !.semanticScore = keepBest(@, result.semanticScore)]],
              results, weight, rank + 1)
\* the outer loop over resultsPerQuery
RECURSIVE AccumulateAll(_, _)
AccumulateAll(merged, resultsPerQuery) ==
    IF resultsPerQuery = <<>> THEN merged
    ELSE AccumulateAll(AccumulateList(merged, Head(resultsPerQuery).results,
                                      Head(resultsPerQuery).weight, 0),
                       Tail(resultsPerQuery))

\* .sort((a, b) => b.weightedRrfScore - a.weightedRrfScore): a consistent
\* comparator, so the stable descending order
SortByWeightedRrf(items) ==
    LET before(i, j) == \/ RatLess(items[j].weightedRrfScore, items[i].weightedRrfScore)
                        \/ /\ ~RatLess(items[i].weightedRrfScore, items[j].weightedRrfScore)
                           /\ i < j
        place(i) == Cardinality({j \in DOMAIN items : before(j, i)}) + 1
    IN [p \in DOMAIN items |-> items[CHOOSE i \in DOMAIN items : place(i) = p]]

mergeAndDeduplicateGeneric(resultsPerQuery) ==
    SortByWeightedRrf(AccumulateAll(<<>>, resultsPerQuery))

IdleDedupe == [pc |-> "idle", resultsPerQuery |-> <<>>, out |-> <<>>]

\* one call of mergeAndDeduplicateBooks / Ayahs / Hadiths
MergeAndDeduplicate ==
    /\ mq.pc = "called"
    /\ mq' = [mq EXCEPT !.pc = "done",
                        !.out = mergeAndDeduplicateGeneric(mq.resultsPerQuery)]
    /\ UNCHANGED notDedupe

(***************************************************************************)
(* The route handler from the query string to the response:                *)
(* src/routes/search/index.ts with parseSearchParams                       *)
(***************************************************************************)
MaxRanked == 3
MAX_QUERY_LENGTH == 500
DEFAULT_SEARCH_LIMIT == 20
MAX_SEARCH_LIMIT == 100
DEFAULT_BOOK_LIMIT == 10
MAX_BOOK_LIMIT == 50

\* a q parameter: so many whitespace characters around so many others
QueryTexts == [spaces : {0, 1, MAX_QUERY_LENGTH + 1},
               letters : {0, 1, MAX_QUERY_LENGTH, MAX_QUERY_LENGTH + 1}]
QueryParams == {Undefined} \cup {Some(t) : t \in QueryTexts}
ModeParams == {Undefined} \cup {Some(v) : v \in {"", "hybrid", "semantic", "keyword", "invalid"}}
\* a limit parameter: absent, not a number, or a number
LimitParams == {[kind |-> "absent", n |-> 0], [kind |-> "text", n |-> 0]}
               \cup {[kind |-> "number", n |-> n] : n \in {0, 1, 2, MAX_SEARCH_LIMIT + 1}}
BookLimitParams == {[kind |-> "absent", n |-> 0], [kind |-> "text", n |-> 0]}
                   \cup {[kind |-> "number", n |-> n] : n \in {0, MAX_BOOK_LIMIT + 1}}
\* the lengths of the list a search hands back
RankedLengths == (0..MaxRanked) \cup {DEFAULT_SEARCH_LIMIT + 1, MAX_SEARCH_LIMIT + 1}

\* query.length and query.trim().length
QueryLength(t) == t.spaces + t.letters
TrimmedLength(t) == IF t.letters = 0 THEN 0 ELSE t.letters

\* the validation of parseSearchParams: the error it returns, or "none"
ParseError_AnyMode(q, modeParam) ==
    IF q = Undefined \/ QueryLength(The(q)) = 0 \/ TrimmedLength(The(q)) = 0
    THEN "Query parameter 'q' is required"
    ELSE IF QueryLength(The(q)) > MAX_QUERY_LENGTH THEN "Query too long"
    ELSE "none"
ParseError(q, modeParam) ==
    IF q = Undefined \/ QueryLength(The(q)) = 0 \/ TrimmedLength(The(q)) = 0
    THEN "Query parameter 'q' is required"
    ELSE IF QueryLength(The(q)) > MAX_QUERY_LENGTH THEN "Query too long"
    ELSE IF (IF modeParam = Undefined \/ modeParam = Some("") THEN "hybrid" ELSE The(modeParam))
               \notin {"hybrid", "semantic", "keyword"}
    THEN "Invalid mode"
    ELSE "none"

\* limit: Math.min(Math.max(parseInt(limit || "20", 10), 1), MAX_SEARCH_LIMIT)
\* parseInt of a text that is no number is NaN, and Math.max / Math.min keep NaN
NaN == {}
ParseLimit(limitParam) ==
    IF limitParam.kind = "absent" THEN Some(DEFAULT_SEARCH_LIMIT)
    ELSE IF limitParam.kind = "text" THEN NaN
    ELSE Some(Min(IF limitParam.n > 1 THEN limitParam.n ELSE 1, MAX_SEARCH_LIMIT))

\* rankedResults.slice(0, params.limit)
LimitResults_NoSlice(rankedResults, limit) == rankedResults
LimitResults(rankedResults, limit) ==
    IF limit = NaN THEN <<>> ELSE Slice(rankedResults, The(limit))

\* bookLimit: Math.min(Math.max(parseInt(bookLimit || "10", 10), MIN_BOOK_LIMIT), MAX_BOOK_LIMIT)
ParseBookLimit(bookLimitParam) ==
    IF bookLimitParam.kind = "absent" THEN Some(DEFAULT_BOOK_LIMIT)
    ELSE IF bookLimitParam.kind = "text" THEN NaN
    ELSE Some(Min(IF bookLimitParam.n > MIN_BOOK_LIMIT THEN bookLimitParam.n
                  ELSE MIN_BOOK_LIMIT, MAX_BOOK_LIMIT))

\* the ayahs a search hands back, best first
AyahLists == {<<>>, <<[id |-> 1, score |-> 2, translation |-> Undefined],
                      [id |-> 2, score |-> 1, translation |-> Undefined]>>}
\* what the query expander produced on the refine path
ExpandedLists == {<<>>, <<"expansion">>}

\* the ayah merge of fetchAndMergeTranslations: rows is the set of ayah ids the
\* repository returned a translation for
MergeAyahTranslations(ayahsRaw, rows) ==
    IF rows = {} THEN ayahsRaw
    ELSE [i \in DOMAIN ayahsRaw |->
            [ayahsRaw[i] EXCEPT !.translation =
                IF ayahsRaw[i].id \in rows THEN Some("text") ELSE Undefined]]

\* resolveGraphContext: the ayahs with the score of the boosted ones raised
ResolveGraphContext(ayahsRaw, boost) ==
    [i \in DOMAIN ayahsRaw |->
        [ayahsRaw[i] EXCEPT !.score = IF ayahsRaw[i].id \in boost THEN @ + 2 ELSE @]]

\* ...(params.refine && { refined: true, expandedQueries })
RefinedFields(refine, expandedQueries) ==
    IF refine THEN [refined |-> TRUE, expandedQueries |-> Some(expandedQueries)]
    ELSE [refined |-> FALSE, expandedQueries |-> Undefined]

IdleHandler == [pc |-> "idle", q |-> Undefined, modeParam |-> Undefined,
                limitParam |-> [kind |-> "absent", n |-> 0],
                bookLimitParam |-> [kind |-> "absent", n |-> 0], refine |-> FALSE,
                bookId |-> FALSE, quranTranslation |-> FALSE,
                mode |-> "none", limit |-> NaN, bookLimit |-> NaN,
                started |-> {}, path |-> "none",
                rankedResults |-> <<>>, ayahsRaw |-> <<>>, expandedQueries |-> <<>>,
                searched |-> <<>>, translation |-> "none", translated |-> <<>>,
                boost |-> {},
                status |-> 0, results |-> <<>>, count |-> 0, ayahs |-> <<>>,
                refined |-> FALSE, responseExpanded |-> Undefined]

\* lines 15-19: parse, answer 400 on an error
ParseSearchParams ==
    /\ hd.pc = "received"
    /\ hd' = IF ParseError(hd.q, hd.modeParam) # "none"
             THEN [hd EXCEPT !.pc = "responded", !.status = 400]
             ELSE [hd EXCEPT !.pc = "parsed",
                             !.mode = IF hd.modeParam = Undefined \/ hd.modeParam = Some("")
                                      THEN "hybrid" ELSE The(hd.modeParam),
                             !.limit = ParseLimit(hd.limitParam),
                             !.bookLimit = ParseBookLimit(hd.bookLimitParam)]
    /\ UNCHANGED notHandler

\* lines 36-37: graph search and author search start early
StartEarly ==
    /\ hd.pc = "parsed"
    /\ hd' = [hd EXCEPT !.pc = "early",
                        !.started = {"graph"} \cup (IF hd.bookId THEN {} ELSE {"authors"})]
    /\ UNCHANGED notHandler

\* lines 53-72: the refine or the standard search runs and hands back its
\* ranked results and ayahs, or throws into the catch of lines 124-143
ExecuteSearch(n, ayahsRaw, expanded, error) ==
    /\ hd.pc = "early"
    /\ \E path \in {IF hd.refine /\ hd.mode = "hybrid" /\ ~hd.bookId
                    THEN "refine" ELSE "standard"} :
          /\ path = "standard" => expanded = <<>>
          /\ hd' = IF error = "none"
                   THEN [hd EXCEPT !.pc = "searched", !.path = path,
                                   !.started = @ \cup {path},
                                   !.rankedResults = [i \in 1..n |-> i],
                                   !.searched = [i \in 1..n |-> i],
                                   !.ayahsRaw = ayahsRaw,
                                   !.expandedQueries = expanded]
                   ELSE [hd EXCEPT !.pc = "responded", !.path = path,
                                   !.started = @ \cup {path},
                                   !.status = IF error = "Collection not found"
                                              THEN 503 ELSE 500]
    /\ UNCHANGED notHandler

\* lines 74-85: await fetchAndMergeTranslations; the ayah lookup runs when a
\* translation is asked for and there are ayahs, and either returns rows or rejects
FetchTranslations(rows, rejects) ==
    /\ hd.pc = "searched"
    /\ IF hd.quranTranslation /\ hd.ayahsRaw # <<>>
       THEN rows \subseteq {hd.ayahsRaw[i].id : i \in DOMAIN hd.ayahsRaw}
       ELSE rows = {} /\ ~rejects
    /\ hd' = IF rejects
             THEN [hd EXCEPT !.pc = "responded", !.translation = "rejected",
                             !.status = 500]
             ELSE [hd EXCEPT !.pc = "translated",
                             !.translation = IF hd.quranTranslation /\ hd.ayahsRaw # <<>>
                                             THEN "resolved" ELSE "none",
                             !.translated = MergeAyahTranslations(hd.ayahsRaw, rows)]
    /\ UNCHANGED notHandler

\* lines 87-123: the final limit, graph context, book details, formatting, c.json
Assemble(boost) ==
    /\ hd.pc = "translated"
    /\ boost \subseteq {hd.ayahsRaw[i].id : i \in DOMAIN hd.ayahsRaw}
    /\ \E results \in {LimitResults(hd.rankedResults, hd.limit)} :
          hd' = [hd EXCEPT !.pc = "responded", !.status = 200,
                           !.rankedResults = results,
                           !.boost = boost,
                           !.ayahsRaw = ResolveGraphContext(hd.ayahsRaw, boost),
                           !.results = results, !.count = Len(results),
                           !.ayahs = hd.translated,
                           !.refined = RefinedFields(hd.refine, hd.expandedQueries).refined,
                           !.responseExpanded =
                               RefinedFields(hd.refine, hd.expandedQueries).expandedQueries]
    /\ UNCHANGED notHandler

(***************************************************************************)
(* Text normalization: src/utils/paragraphs.ts (normalizeArabicText)       *)
(* A string is a sequence of characters, each named by its class.          *)
(***************************************************************************)
MaxTextLen == 5

\* [ً-ٰٟ], [آأإٱ], ء, ى, ة, \s
Diacritics == {"fatha"}
AlefVariants == {"alefHamza"}
Whitespace == {" ", "tab"}
InputChars == Diacritics \cup AlefVariants \cup Whitespace
              \cup {"hamza", "alefMaksura", "tehMarbuta", "beh"}
InputTexts == UNION {[1..n -> InputChars] : n \in 0..MaxTextLen}

\* text.replace(/[class]/g, "")
RemoveAll(text, class) == SelectSeq(text, LAMBDA ch : ch \notin class)
\* text.replace(/[class]/g, to)
ReplaceEach(text, class, to) ==
    [i \in DOMAIN text |-> IF text[i] \in class THEN to ELSE text[i]]
\* text.replace(/\s+/g, " "): every run of whitespace becomes one space
CollapseWhitespace(text) ==
    LET kept == {i \in DOMAIN text :
                    text[i] \notin Whitespace \/ i = 1 \/ text[i - 1] \notin Whitespace}
        nth(p) == CHOOSE i \in kept : Cardinality({j \in kept : j < i}) = p - 1
    IN [p \in 1..Cardinality(kept) |->
           IF text[nth(p)] \in Whitespace THEN " " ELSE text[nth(p)]]
\* text.trim()
RECURSIVE Trim(_)
Trim(text) ==
    IF text = <<>> THEN text
    ELSE IF Head(text) \in Whitespace THEN Trim(Tail(text))
    ELSE IF text[Len(text)] \in Whitespace THEN Trim(SubSeq(text, 1, Len(text) - 1))
    ELSE text

normalizeArabicText_WhitespaceFirst(text) ==
    ReplaceEach(ReplaceEach(RemoveAll(ReplaceEach(RemoveAll(
        Trim(CollapseWhitespace(text)),
        Diacritics), AlefVariants, "alef"), {"hamza"}), {"alefMaksura"}, "yeh"),
        {"tehMarbuta"}, "heh")
normalizeArabicText(text) ==
    Trim(CollapseWhitespace(
        ReplaceEach(ReplaceEach(RemoveAll(ReplaceEach(RemoveAll(text,
            Diacritics), AlefVariants, "alef"), {"hamza"}), {"alefMaksura"}, "yeh"),
            {"tehMarbuta"}, "heh")))

IdleNormalize == [pc |-> "idle", text |-> <<>>, once |-> <<>>, twice |-> <<>>]

\* normalizeArabicText(text)
NormalizeOnce ==
    /\ nz.pc = "given"
    /\ nz' = [nz EXCEPT !.pc = "once", !.once = normalizeArabicText(nz.text)]
    /\ UNCHANGED notNormalize

\* normalizeArabicText applied to its own result
NormalizeAgain ==
    /\ nz.pc = "once"
    /\ nz' = [nz EXCEPT !.pc = "twice", !.twice = normalizeArabicText(nz.once)]
    /\ UNCHANGED notNormalize

(***************************************************************************)
(* Indexed book ids (src/search/elasticsearch-catalog.ts)                  *)
(*                                                                         *)
(* getIndexedBookIds answers from a module-level cache while it is fresh   *)
(* and otherwise refreshes it from the metadata store (page counts per     *)
(* book), the lexical index (an aggregation of page counts per book) and   *)
(* the vector store (one count per book that is complete in the lexical    *)
(* index).  Time is counted in minutes.                                    *)
(***************************************************************************)
MaxPages == 2
MaxCatalogTime == 8
CATALOG_TTL == 5
CatalogBooks == {"b1", "b2"}
HADITH_SOURCE_BOOK_IDS == {"1681"}

\* page counts per book; 0 stands for a book without a row or bucket
PageCounts == [CatalogBooks -> 0..MaxPages]
\* the outcome of one back-end query: a failure, or the counts it returned
QueryOutcomes == [failed : {TRUE}, counts : {[b \in CatalogBooks |-> 0]}]
                     \cup [failed : {FALSE}, counts : PageCounts]
\* the outcome of qdrant.count for each book: a failure or a count
CountOutcomes == [CatalogBooks -> [failed : BOOLEAN, count : 0..MaxPages]]

\* step 2: the books whose lexical count covers the metadata count
FullyInES(dbCounts, esCounts) ==
    {b \in CatalogBooks : esCounts[b] > 0 /\ dbCounts[b] # 0 /\ esCounts[b] >= dbCounts[b]}

\* lines 68-78: a failed count is caught and read as 0
QdrantCount(outcome) == IF outcome.failed THEN 0 ELSE outcome.count

\* step 3: the hadith source books and every book complete in the vector store
FullyIndexed(dbCounts, esCounts, qd) ==
    HADITH_SOURCE_BOOK_IDS
        \cup {b \in FullyInES(dbCounts, esCounts) : QdrantCount(qd[b]) >= dbCounts[b]}

NoCatalogCall == [served |-> "none", dbFailed |-> FALSE, esFailed |-> FALSE,
                  countFailed |-> {}, stored |-> FALSE, result |-> Undefined]
IdleCatalog == [indexedBookIdsCache |-> Undefined, now |-> 0, call |-> NoCatalogCall]

CacheFresh ==
    /\ catalog.indexedBookIdsCache # Undefined
    /\ catalog.now < The(catalog.indexedBookIdsCache).expiry

\* lines 29-31: a call while the cache is fresh answers from it
ServeFromCache ==
    /\ CacheFresh
    /\ catalog' = [catalog EXCEPT !.call =
           [NoCatalogCall EXCEPT !.served = "cache",
                !.result = Some(The(catalog.indexedBookIdsCache).ids)]]
    /\ UNCHANGED notCatalog

\* lines 32-94: a call that refreshes, with the outcomes of the queries it makes
Refresh(db, es, qd) ==
    /\ ~CacheFresh
    /\ UNCHANGED notCatalog
    /\ IF db.failed \/ es.failed
       THEN catalog' = [catalog EXCEPT !.call =
                [NoCatalogCall EXCEPT !.served = "refresh",
                     !.dbFailed = db.failed, !.esFailed = es.failed]]
       ELSE \E ids \in {FullyIndexed(db.counts, es.counts, qd)} :
            catalog' = [catalog EXCEPT
                !.indexedBookIdsCache =
                    Some([ids |-> ids, expiry |-> catalog.now + CATALOG_TTL]),
                !.call = [NoCatalogCall EXCEPT !.served = "refresh",
                     !.countFailed = {b \in FullyInES(db.counts, es.counts) : qd[b].failed},
                     !.stored = TRUE,
                     !.result = Some(ids)]]

CatalogTick ==
    /\ catalog.now < MaxCatalogTime
    /\ catalog' = [catalog EXCEPT !.now = @ + 1]
    /\ UNCHANGED notCatalog

(***************************************************************************)
(* Specifications                                                          *)
(***************************************************************************)
IdleApi == [pc |-> "idle", attempt |-> 0, input |-> <<>>, task |-> "retrieval.query",
            attempts |-> 0, waits |-> 0, waited |-> 0, lastStatus |-> 0,
            error |-> "none", result |-> <<>>]
IdleParams == [mode |-> "hybrid", includeBooks |-> TRUE, includeQuran |-> TRUE,
               includeHadith |-> TRUE, bookId |-> FALSE, arabic |-> TRUE,
               skipSemantic |-> FALSE, limit |-> 1]

\* the translation coalescer under concurrent requests
TrackerInit ==
    /\ inflight = <<>>
    /\ promises = <<>>
    /\ req = [r \in Requests |-> IdleRequest]
    /\ everSplit = FALSE
    /\ cache = <<>>
    /\ now = 0
    /\ maxSize = EmbMaxSize
    /\ ttlMs = EmbTtl
    /\ evictionCount = EmbEvictionCount
    /\ lastOp = NoOp
    /\ persistent = <<>>
    /\ single = IdleSingle
    /\ batch = IdleBatch
    /\ promoted = {}
    /\ api = IdleApi
    /\ params = IdleParams
    /\ spc = "idle"
    /\ embeddingPromise = [state |-> "none", error |-> "none"]
    /\ branch = [b \in Branches |-> [state |-> "notStarted", value |-> <<>>, error |-> "none"]]
    /\ gathered = NoGathered
    /\ output = NoOutput
    /\ response = NoResponse
    /\ catalog = IdleCatalog
    /\ nz = IdleNormalize
    /\ hd = IdleHandler
    /\ mq = IdleDedupe
    /\ std = IdleStd
    /\ merge = IdleMerge
    /\ rr = IdleRerank

TrackerNext ==
    \/ \E r \in Requests, k \in TKeys : RequestCheck(r, k)
    \/ \E r \in Requests : RequestRegister(r)
    \/ \E r \in Requests, k \in TKeys : RequestCheckAndRegister(r, k)
    \/ \E p \in PromiseIds, o \in {"fulfilled", "rejected"} : Settle(p, o)
    \/ \E p \in PromiseIds : FinallyCallback(p)
    \/ \E r \in Requests : RequestDone(r)

TrackerSpec == TrackerInit /\ [][TrackerNext]_vars

\* one TTLCache under single-key writes, reads and clear
CacheInit ==
    /\ inflight = <<>>
    /\ promises = <<>>
    /\ req = [r \in Requests |-> IdleRequest]
    /\ everSplit = FALSE
    /\ cache = <<>>
    /\ now = 0
    /\ maxSize \in 1..MaxMaxSize
    /\ ttlMs \in 1..MaxTtl
    /\ evictionCount \in 1..MaxEvictionCount
    /\ lastOp = NoOp
    /\ persistent = <<>>
    /\ single = IdleSingle
    /\ batch = IdleBatch
    /\ promoted = {}
    /\ api = IdleApi
    /\ params = IdleParams
    /\ spc = "idle"
    /\ embeddingPromise = [state |-> "none", error |-> "none"]
    /\ branch = [b \in Branches |-> [state |-> "notStarted", value |-> <<>>, error |-> "none"]]
    /\ gathered = NoGathered
    /\ output = NoOutput
    /\ response = NoResponse
    /\ catalog = IdleCatalog
    /\ nz = IdleNormalize
    /\ hd = IdleHandler
    /\ mq = IdleDedupe
    /\ std = IdleStd
    /\ merge = IdleMerge
    /\ rr = IdleRerank

CacheNext ==
    \/ \E k \in CKeys, v \in CValues : Set(k, v)
    \/ \E k \in CKeys : Get(k)
    \/ \E ks \in KeyLists : GetMany(ks)
    \/ Clear
    \/ Tick

CacheSpec == CacheInit /\ [][CacheNext]_vars

\* the cache under single and batch writes
CacheBatchInit ==
    /\ inflight = <<>>
    /\ promises = <<>>
    /\ req = [r \in Requests |-> IdleRequest]
    /\ everSplit = FALSE
    /\ cache = <<>>
    /\ now = 0
    /\ maxSize \in 1..MaxMaxSize
    /\ ttlMs \in 1..MaxTtl
    /\ evictionCount \in 1..MaxEvictionCount
    /\ lastOp = NoOp
    /\ persistent = <<>>
    /\ single = IdleSingle
    /\ batch = IdleBatch
    /\ promoted = {}
    /\ api = IdleApi
    /\ params = IdleParams
    /\ spc = "idle"
    /\ embeddingPromise = [state |-> "none", error |-> "none"]
    /\ branch = [b \in Branches |-> [state |-> "notStarted", value |-> <<>>, error |-> "none"]]
    /\ gathered = NoGathered
    /\ output = NoOutput
    /\ response = NoResponse
    /\ catalog = IdleCatalog
    /\ nz = IdleNormalize
    /\ hd = IdleHandler
    /\ mq = IdleDedupe
    /\ std = IdleStd
    /\ merge = IdleMerge
    /\ rr = IdleRerank

CacheBatchNext ==
    \/ \E k \in CKeys, v \in CValues : Set(k, v)
    \/ \E ks \in KeyLists : SetMany([i \in DOMAIN ks |-> [key |-> ks[i], value |-> "v1"]])
    \/ \E k \in CKeys : Get(k)
    \/ Tick

CacheBatchSpec == CacheBatchInit /\ [][CacheBatchNext]_vars

\* the embedding provider over both cache tiers
ProviderInit ==
    /\ inflight = <<>>
    /\ promises = <<>>
    /\ req = [r \in Requests |-> IdleRequest]
    /\ everSplit = FALSE
    /\ cache = <<>>
    /\ now = 0
    /\ maxSize = EmbMaxSize
    /\ ttlMs = EmbTtl
    /\ evictionCount = EmbEvictionCount
    /\ lastOp = ProviderOp("new", <<>>, {}, {}, <<>>)
    /\ persistent \in PersistentStores
    /\ single = IdleSingle
    /\ batch = IdleBatch
    /\ promoted = {}
    /\ api = IdleApi
    /\ params = IdleParams
    /\ spc = "idle"
    /\ embeddingPromise = [state |-> "none", error |-> "none"]
    /\ branch = [b \in Branches |-> [state |-> "notStarted", value |-> <<>>, error |-> "none"]]
    /\ gathered = NoGathered
    /\ output = NoOutput
    /\ response = NoResponse
    /\ catalog = IdleCatalog
    /\ nz = IdleNormalize
    /\ hd = IdleHandler
    /\ mq = IdleDedupe
    /\ std = IdleStd
    /\ merge = IdleMerge
    /\ rr = IdleRerank

ProviderNext ==
    \/ \E t \in Texts, k \in Tasks : SingleStart(t, k)
    \/ SingleFinish
    \/ SingleFail
    \/ \E ts \in TextLists(MaxSharedBatch), k \in Tasks : BatchStart(ts, k)
    \/ BatchFinish
    \/ BatchFail
    \/ ClearCache
    \/ ProviderTick

ProviderSpec == ProviderInit /\ [][ProviderNext]_vars

\* generateJinaEmbeddings alone, over longer batches
BatchInit ==
    /\ inflight = <<>>
    /\ promises = <<>>
    /\ req = [r \in Requests |-> IdleRequest]
    /\ everSplit = FALSE
    /\ cache = <<>>
    /\ now = 0
    /\ maxSize = EmbMaxSize
    /\ ttlMs = EmbTtl
    /\ evictionCount = EmbEvictionCount
    /\ lastOp = ProviderOp("new", <<>>, {}, {}, <<>>)
    /\ persistent \in PersistentStores
    /\ single = IdleSingle
    /\ batch = IdleBatch
    /\ promoted = {}
    /\ api = IdleApi
    /\ params = IdleParams
    /\ spc = "idle"
    /\ embeddingPromise = [state |-> "none", error |-> "none"]
    /\ branch = [b \in Branches |-> [state |-> "notStarted", value |-> <<>>, error |-> "none"]]
    /\ gathered = NoGathered
    /\ output = NoOutput
    /\ response = NoResponse
    /\ catalog = IdleCatalog
    /\ nz = IdleNormalize
    /\ hd = IdleHandler
    /\ mq = IdleDedupe
    /\ std = IdleStd
    /\ merge = IdleMerge
    /\ rr = IdleRerank

BatchNext ==
    \/ \E ts \in TextLists(MaxBatch), k \in Tasks : BatchStart(ts, k)
    \/ BatchFinish
    \/ BatchFail
    \/ ClearCache
    \/ ProviderTick

BatchSpec == BatchInit /\ [][BatchNext]_vars

\* one callJinaAPI call
ApiInit ==
    /\ inflight = <<>>
    /\ promises = <<>>
    /\ req = [r \in Requests |-> IdleRequest]
    /\ everSplit = FALSE
    /\ cache = <<>>
    /\ now = 0
    /\ maxSize = EmbMaxSize
    /\ ttlMs = EmbTtl
    /\ evictionCount = EmbEvictionCount
    /\ lastOp = NoOp
    /\ persistent = <<>>
    /\ single = IdleSingle
    /\ batch = IdleBatch
    /\ promoted = {}
    /\ \E input \in TextLists(MaxBatch) \ {<<>>}, task \in Tasks :
          api = [IdleApi EXCEPT !.pc = "loop", !.input = input, !.task = task]
    /\ params = IdleParams
    /\ spc = "idle"
    /\ embeddingPromise = [state |-> "none", error |-> "none"]
    /\ branch = [b \in Branches |-> [state |-> "notStarted", value |-> <<>>, error |-> "none"]]
    /\ gathered = NoGathered
    /\ output = NoOutput
    /\ response = NoResponse
    /\ catalog = IdleCatalog
    /\ nz = IdleNormalize
    /\ hd = IdleHandler
    /\ mq = IdleDedupe
    /\ std = IdleStd
    /\ merge = IdleMerge
    /\ rr = IdleRerank

ApiNext ==
    \/ ApiSend
    \/ \E st \in Statuses : ApiResponse(st)
    \/ ApiFetchRejects
    \/ ApiBackoffOver

ApiSpec == ApiInit /\ [][ApiNext]_vars

\* one search request on the standard path
Init ==
    /\ inflight = <<>>
    /\ promises = <<>>
    /\ req = [r \in Requests |-> IdleRequest]
    /\ everSplit = FALSE
    /\ cache = <<>>
    /\ now = 0
    /\ maxSize = EmbMaxSize
    /\ ttlMs = EmbTtl
    /\ evictionCount = EmbEvictionCount
    /\ lastOp = NoOp
    /\ persistent = <<>>
    /\ single = IdleSingle
    /\ batch = IdleBatch
    /\ promoted = {}
    /\ api = IdleApi
    /\ params \in [mode : Modes, includeBooks : BOOLEAN, includeQuran : BOOLEAN,
                   includeHadith : BOOLEAN, bookId : BOOLEAN, arabic : BOOLEAN,
                   skipSemantic : BOOLEAN, limit : 1..MaxLimit]
    /\ spc = "start"
    /\ embeddingPromise = [state |-> "none", error |-> "none"]
    /\ branch = [b \in Branches |-> [state |-> "notStarted", value |-> <<>>, error |-> "none"]]
    /\ gathered = NoGathered
    /\ output = NoOutput
    /\ response = NoResponse
    /\ catalog = IdleCatalog
    /\ nz = IdleNormalize
    /\ hd = IdleHandler
    /\ mq = IdleDedupe
    /\ std = IdleStd
    /\ merge = IdleMerge
    /\ rr = IdleRerank

Next ==
    \/ Phase1
    \/ \E ok \in BOOLEAN, e \in Errors : EmbeddingSettles(ok, e)
    \/ \E b \in Branches, ok \in BOOLEAN, v \in Responses, e \in Errors :
          BranchSettles(b, ok, v, e)
    \/ Phase2
    \/ Phase3
    \/ \E ok \in BOOLEAN : Respond(ok)

Spec == Init /\ [][Next]_vars

\* one reranker call
RerankInit ==
    /\ inflight = <<>>
    /\ promises = <<>>
    /\ req = [r \in Requests |-> IdleRequest]
    /\ everSplit = FALSE
    /\ cache = <<>>
    /\ now = 0
    /\ maxSize = EmbMaxSize
    /\ ttlMs = EmbTtl
    /\ evictionCount = EmbEvictionCount
    /\ lastOp = NoOp
    /\ persistent = <<>>
    /\ single = IdleSingle
    /\ batch = IdleBatch
    /\ promoted = {}
    /\ api = IdleApi
    /\ params = IdleParams
    /\ spc = "idle"
    /\ embeddingPromise = [state |-> "none", error |-> "none"]
    /\ branch = [b \in Branches |-> [state |-> "notStarted", value |-> <<>>, error |-> "none"]]
    /\ gathered = NoGathered
    /\ output = NoOutput
    /\ response = NoResponse
    /\ catalog = IdleCatalog
    /\ nz = IdleNormalize
    /\ hd = IdleHandler
    /\ mq = IdleDedupe
    /\ std = IdleStd
    /\ merge = IdleMerge
    /\ rr = IdleRerank

RerankNext ==
    \/ \E n \in 0..MaxCandidates, topN \in 1..MaxTopN, m \in Rerankers, hasKey \in BOOLEAN :
          RerankCall(n, topN, m, hasKey)
    \/ \E reply \in Replies(MaxCandidates + 1, MaxRanking) : RerankReply(reply)
    \/ \E lens \in [1..3 -> 0..MaxTypeLen], limits \in [1..3 -> 1..MaxTypeLimit],
          m \in Rerankers : UnifiedCall(lens, limits, m)
    \/ \E reply \in Replies(3 * MaxTypeLen + 1, MaxUnifiedRanking) : UnifiedReply(reply)

RerankSpec == RerankInit /\ [][RerankNext]_vars

\* the merge phase of one standard search
MergePhaseInit ==
    /\ inflight = <<>>
    /\ promises = <<>>
    /\ req = [r \in Requests |-> IdleRequest]
    /\ everSplit = FALSE
    /\ cache = <<>>
    /\ now = 0
    /\ maxSize = EmbMaxSize
    /\ ttlMs = EmbTtl
    /\ evictionCount = EmbEvictionCount
    /\ lastOp = NoOp
    /\ persistent = <<>>
    /\ single = IdleSingle
    /\ batch = IdleBatch
    /\ promoted = {}
    /\ api = IdleApi
    /\ params = IdleParams
    /\ spc = "idle"
    /\ embeddingPromise = [state |-> "none", error |-> "none"]
    /\ branch = [b \in Branches |-> [state |-> "notStarted", value |-> <<>>, error |-> "none"]]
    /\ gathered = NoGathered
    /\ output = NoOutput
    /\ response = NoResponse
    /\ catalog = IdleCatalog
    /\ nz = IdleNormalize
    /\ hd = IdleHandler
    /\ mq = IdleDedupe
    /\ rr = IdleRerank
    /\ merge = IdleMerge
    /\ \E mode \in {"keyword", "semantic", "hybrid"}, include \in [Domains -> BOOLEAN],
          bookId \in BOOLEAN, limit \in 1..MaxStdLimit :
       \E s \in {[IdleStd EXCEPT !.pc = "awaited", !.mode = mode, !.include = include,
                                 !.bookId = bookId, !.limit = limit]} :
       \E pb \in AwaitedLists(mode, DomainSearched(s, "books")),
          pa \in AwaitedLists(mode, DomainSearched(s, "ayahs")),
          ph \in AwaitedLists(mode, DomainSearched(s, "hadiths")) :
          std = [s EXCEPT !.kw = [d \in Domains |-> IF d = "books" THEN pb[1]
                                                    ELSE IF d = "ayahs" THEN pa[1] ELSE ph[1]],
                          !.sem = [d \in Domains |-> IF d = "books" THEN pb[2]
                                                     ELSE IF d = "ayahs" THEN pa[2] ELSE ph[2]]]

MergePhaseNext ==
    \/ MergePhase

MergePhaseSpec == MergePhaseInit /\ [][MergePhaseNext]_vars

\* one multi-query dedupe
DedupeInit ==
    /\ inflight = <<>>
    /\ promises = <<>>
    /\ req = [r \in Requests |-> IdleRequest]
    /\ everSplit = FALSE
    /\ cache = <<>>
    /\ now = 0
    /\ maxSize = EmbMaxSize
    /\ ttlMs = EmbTtl
    /\ evictionCount = EmbEvictionCount
    /\ lastOp = NoOp
    /\ persistent = <<>>
    /\ single = IdleSingle
    /\ batch = IdleBatch
    /\ promoted = {}
    /\ api = IdleApi
    /\ params = IdleParams
    /\ spc = "idle"
    /\ embeddingPromise = [state |-> "none", error |-> "none"]
    /\ branch = [b \in Branches |-> [state |-> "notStarted", value |-> <<>>, error |-> "none"]]
    /\ gathered = NoGathered
    /\ output = NoOutput
    /\ response = NoResponse
    /\ catalog = IdleCatalog
    /\ nz = IdleNormalize
    /\ hd = IdleHandler
    /\ rr = IdleRerank
    /\ merge = IdleMerge
    /\ std = IdleStd
    /\ \E m \in 1..MaxVariants :
       \E lists \in [1..m -> VariantLists], weights \in [1..m -> VariantWeights] :
          mq = [IdleDedupe EXCEPT !.pc = "called",
                  !.resultsPerQuery = [v \in 1..m |-> [results |-> lists[v],
                                                       weight |-> weights[v]]]]

DedupeNext ==
    \/ MergeAndDeduplicate

DedupeSpec == DedupeInit /\ [][DedupeNext]_vars

\* one request through the route handler
HandlerInit ==
    /\ inflight = <<>>
    /\ promises = <<>>
    /\ req = [r \in Requests |-> IdleRequest]
    /\ everSplit = FALSE
    /\ cache = <<>>
    /\ now = 0
    /\ maxSize = EmbMaxSize
    /\ ttlMs = EmbTtl
    /\ evictionCount = EmbEvictionCount
    /\ lastOp = NoOp
    /\ persistent = <<>>
    /\ single = IdleSingle
    /\ batch = IdleBatch
    /\ promoted = {}
    /\ api = IdleApi
    /\ params = IdleParams
    /\ spc = "idle"
    /\ embeddingPromise = [state |-> "none", error |-> "none"]
    /\ branch = [b \in Branches |-> [state |-> "notStarted", value |-> <<>>, error |-> "none"]]
    /\ gathered = NoGathered
    /\ output = NoOutput
    /\ response = NoResponse
    /\ catalog = IdleCatalog
    /\ nz = IdleNormalize
    /\ rr = IdleRerank
    /\ merge = IdleMerge
    /\ std = IdleStd
    /\ mq = IdleDedupe
    /\ \E q \in QueryParams, modeParam \in ModeParams, limitParam \in LimitParams,
          bookLimitParam \in BookLimitParams, refine \in BOOLEAN, bookId \in BOOLEAN,
          quranTranslation \in BOOLEAN :
          hd = [IdleHandler EXCEPT !.pc = "received", !.q = q, !.modeParam = modeParam,
                                   !.limitParam = limitParam,
                                   !.bookLimitParam = bookLimitParam, !.refine = refine,
                                   !.bookId = bookId,
                                   !.quranTranslation = quranTranslation]

HandlerNext ==
    \/ ParseSearchParams
    \/ StartEarly
    \/ \E n \in RankedLengths, ayahsRaw \in AyahLists, expanded \in ExpandedLists,
          error \in {"none"} \cup Errors : ExecuteSearch(n, ayahsRaw, expanded, error)
    \/ \E rows \in SUBSET {1, 2}, rejects \in BOOLEAN : FetchTranslations(rows, rejects)
    \/ \E boost \in SUBSET {1, 2} : Assemble(boost)

HandlerSpec == HandlerInit /\ [][HandlerNext]_vars

\* text normalization applied once and again
NormalizeInit ==
    /\ inflight = <<>>
    /\ promises = <<>>
    /\ req = [r \in Requests |-> IdleRequest]
    /\ everSplit = FALSE
    /\ cache = <<>>
    /\ now = 0
    /\ maxSize = EmbMaxSize
    /\ ttlMs = EmbTtl
    /\ evictionCount = EmbEvictionCount
    /\ lastOp = NoOp
    /\ persistent = <<>>
    /\ single = IdleSingle
    /\ batch = IdleBatch
    /\ promoted = {}
    /\ api = IdleApi
    /\ params = IdleParams
    /\ spc = "idle"
    /\ embeddingPromise = [state |-> "none", error |-> "none"]
    /\ branch = [b \in Branches |-> [state |-> "notStarted", value |-> <<>>, error |-> "none"]]
    /\ gathered = NoGathered
    /\ output = NoOutput
    /\ response = NoResponse
    /\ catalog = IdleCatalog
    /\ rr = IdleRerank
    /\ merge = IdleMerge
    /\ std = IdleStd
    /\ mq = IdleDedupe
    /\ hd = IdleHandler
    /\ \E text \in InputTexts : nz = [IdleNormalize EXCEPT !.pc = "given", !.text = text]

NormalizeNext ==
    \/ NormalizeOnce
    \/ NormalizeAgain

NormalizeSpec == NormalizeInit /\ [][NormalizeNext]_vars

\* one hybrid merge
FusionInit ==
    /\ inflight = <<>>
    /\ promises = <<>>
    /\ req = [r \in Requests |-> IdleRequest]
    /\ everSplit = FALSE
    /\ cache = <<>>
    /\ now = 0
    /\ maxSize = EmbMaxSize
    /\ ttlMs = EmbTtl
    /\ evictionCount = EmbEvictionCount
    /\ lastOp = NoOp
    /\ persistent = <<>>
    /\ single = IdleSingle
    /\ batch = IdleBatch
    /\ promoted = {}
    /\ api = IdleApi
    /\ params = IdleParams
    /\ spc = "idle"
    /\ embeddingPromise = [state |-> "none", error |-> "none"]
    /\ branch = [b \in Branches |-> [state |-> "notStarted", value |-> <<>>, error |-> "none"]]
    /\ gathered = NoGathered
    /\ output = NoOutput
    /\ response = NoResponse
    /\ catalog = IdleCatalog
    /\ nz = IdleNormalize
    /\ hd = IdleHandler
    /\ mq = IdleDedupe
    /\ std = IdleStd
    /\ rr = IdleRerank
    /\ \E sem \in SemanticLists, kw \in KeywordLists :
          merge = [IdleMerge EXCEPT !.pc = "called", !.sem = sem, !.kw = kw]

FusionNext ==
    \/ MergeWithRRF
    \/ FormatResults

FusionSpec == FusionInit /\ [][FusionNext]_vars

CatalogInit ==
    /\ inflight = <<>>
    /\ promises = <<>>
    /\ req = [r \in Requests |-> IdleRequest]
    /\ everSplit = FALSE
    /\ cache = <<>>
    /\ now = 0
    /\ maxSize = EmbMaxSize
    /\ ttlMs = EmbTtl
    /\ evictionCount = EmbEvictionCount
    /\ lastOp = NoOp
    /\ persistent = <<>>
    /\ single = IdleSingle
    /\ batch = IdleBatch
    /\ promoted = {}
    /\ api = IdleApi
    /\ params = IdleParams
    /\ spc = "idle"
    /\ embeddingPromise = [state |-> "none", error |-> "none"]
    /\ branch = [b \in Branches |-> [state |-> "notStarted", value |-> <<>>, error |-> "none"]]
    /\ gathered = NoGathered
    /\ output = NoOutput
    /\ response = NoResponse
    /\ rr = IdleRerank
    /\ merge = IdleMerge
    /\ std = IdleStd
    /\ mq = IdleDedupe
    /\ hd = IdleHandler
    /\ nz = IdleNormalize
    /\ catalog = IdleCatalog

CatalogNext ==
    \/ ServeFromCache
    \/ \E db \in QueryOutcomes, es \in QueryOutcomes, qd \in CountOutcomes :
           Refresh(db, es, qd)
    \/ CatalogTick

CatalogSpec == CatalogInit /\ [][CatalogNext]_vars

(***************************************************************************)
(* Properties                                                              *)
(***************************************************************************)

\* ---- standard search (Spec) ----

\* C1: when embedding generation rejects, the request still answers 200 with
\* the lexical results. (Refuted: await embeddingPromise has no catch, so the
\* rejection leaves executeStandardSearch and the handler answers 500 or 503.)
C1_EmbeddingFailureStill200 ==
    (spc = "responded" /\ embeddingPromise.state = "rejected") => response.status = 200

ExecuteReturned ==
    \/ spc = "returned"
    \/ spc = "responded" /\ response.thrownBy # "executeStandardSearch"

\* C2: a failed search branch contributes an empty list for that branch only,
\* every other branch contributes exactly what its engine answered, and no
\* set of failing branches makes executeStandardSearch throw.
C2_BranchFailureIsolated ==
    /\ ExecuteReturned =>
          \A b \in Branches :
              gathered[b] = IF branch[b].state = "ok" THEN branch[b].value ELSE <<>>
    /\ response.thrownBy = "executeStandardSearch" => embeddingPromise.state = "rejected"
C2_TwoFailedOneAnswered ==
    /\ spc = "returned"
    /\ Cardinality({b \in Branches : branch[b].state = "failed"}) >= 2
    /\ \E b \in Branches : branch[b].state = "ok" /\ gathered[b] = <<2, 1>>

\* ---- translation coalescer (TrackerSpec) ----
PendingFor(k) ==
    {p \in DOMAIN promises : promises[p].key = k /\ promises[p].state = "pending"}

CleanupStep(p) ==
    /\ p \in DOMAIN promises
    /\ ~promises[p].cleaned
    /\ promises'[p].cleaned
Holds(m, k, p) == k \in DOMAIN m /\ m[k] = p

\* C4: the cleanup of a settled promise p removes its key exactly when the map
\* still holds p; an entry leaves the map only through the cleanup of the
\* promise it holds or by being replaced with a newly registered promise; and
\* no entry outlives the cleanup of its own promise.
C4_GuardedSelfRemoval ==
    /\ [][ /\ \A p \in PromiseIds :
                CleanupStep(p) =>
                    IF Holds(inflight, promises[p].key, p)
                    THEN promises[p].key \notin DOMAIN inflight'
                         /\ \A k \in DOMAIN inflight \ {promises[p].key} :
                                Holds(inflight', k, inflight[k])
                    ELSE inflight' = inflight
           /\ \A k \in DOMAIN inflight :
                ~Holds(inflight', k, inflight[k]) =>
                    \/ CleanupStep(inflight[k])
                    \/ k \in DOMAIN inflight' /\ inflight'[k] \notin DOMAIN promises
         ]_vars
    /\ [](\A k \in DOMAIN inflight : ~promises[inflight[k]].cleaned)
C4_ReplacedPromiseCleaned ==
    \E p1, p2 \in DOMAIN promises :
        /\ p1 # p2
        /\ promises[p1].key = promises[p2].key
        /\ promises[p1].replaced /\ promises[p1].cleaned
        /\ promises[p2].state = "pending"
        /\ Holds(inflight, promises[p2].key, p2)

\* ---- TTL cache (CacheSpec) ----

\* C5: under single-key set, get, getMany and clear the cache never holds more
\* than maxSize entries.
C5_SizeBounded == Len(cache) <= maxSize
C5_FullAfterEviction ==
    lastOp.op = "set" /\ lastOp.evicted /\ Len(cache) = maxSize /\ maxSize > 1

Age(k) == now - Entry(cache, k).timestamp

\* C6: set(k, v) stores v under k with the current time; get(k) on an entry
\* whose age is at most the TTL returns its value and changes nothing; get(k)
\* on an older entry returns nil and deletes it; get(k) on an absent key
\* returns nil; and an entry appears or changes only through set.
C6_GetWithinTtl ==
    [][ /\ lastOp'.op = "set" =>
              /\ Has(cache', lastOp'.keys[1])
              /\ Entry(cache', lastOp'.keys[1]).value = The(lastOp'.value)
              /\ Entry(cache', lastOp'.keys[1]).timestamp = now
        /\ lastOp'.op = "get" =>
              IF Has(cache, lastOp'.keys[1]) /\ Age(lastOp'.keys[1]) <= ttlMs
              THEN /\ lastOp'.result = Some(Entry(cache, lastOp'.keys[1]).value)
                   /\ cache' = cache
              ELSE /\ lastOp'.result = Undefined
                   /\ ~Has(cache', lastOp'.keys[1])
                   /\ cache' = CacheDelete(cache, lastOp'.keys[1])
        /\ \A k \in CKeys :
              (Has(cache', k) /\ (~Has(cache, k) \/ Entry(cache', k) # Entry(cache, k)))
                  => lastOp'.op = "set" /\ lastOp'.keys = <<k>>
      ]_vars
C6_HitAtTtl ==
    /\ lastOp.op = "get"
    /\ lastOp.result # Undefined
    /\ Has(cache, lastOp.keys[1])
    /\ Age(lastOp.keys[1]) = ttlMs

\* ---- callJinaAPI (ApiSpec) ----

\* C8 as stated: one call issues at most 8 HTTP attempts. (Refuted: the loop
\* runs for attempt = 0..maxRetries, which is 9 attempts.)
C8_AtMostEightAttempts == api.attempts <= 8

\* C8 corrected: one call issues at most maxRetries + 1 = 9 HTTP attempts and
\* waits at most maxRetries = 8 times; after the last attempt it has returned
\* or thrown.
C8_AtMostNineAttempts ==
    /\ api.attempts <= maxRetries + 1
    /\ api.waits <= maxRetries
    /\ (api.attempts = maxRetries + 1 /\ api.pc # "awaiting")
          => api.pc \in {"returned", "thrown"}
C8_NineAttemptsAll429 ==
    /\ api.pc = "thrown"
    /\ api.attempts = maxRetries + 1
    /\ api.waits = maxRetries
    /\ api.lastStatus = 429

\* C9: a backoff wait follows a 429 response only; a non-2xx response other
\* than 429 ends the call with an error on that attempt, with no wait and no
\* further attempt; every attempt after the first follows a 429 and its wait.
C9_FailFastOnOtherErrors ==
    [][ /\ (api.pc = "awaiting" /\ api'.pc = "wait") => api'.lastStatus = 429
        /\ (api.pc = "awaiting" /\ api'.lastStatus # api.lastStatus
              /\ ~Ok(api'.lastStatus) /\ api'.lastStatus # 429)
              => /\ api'.pc = "thrown"
                 /\ api'.waits = api.waits
                 /\ api'.attempts = api.attempts
        /\ api.pc = "thrown" => api' = api
        /\ api'.attempts > api.attempts =>
              \/ api.attempts = 0
              \/ api.lastStatus = 429 /\ api.waits = api.attempts
      ]_vars
C9_NotFoundAfterTwoRetries ==
    /\ api.pc = "thrown"
    /\ api.error = "http"
    /\ api.lastStatus = 404
    /\ api.attempts = 3
    /\ api.waits = 2

\* ---- embedding provider ----

C10_PromotedServedFromMemory ==
    /\ [](\A k \in promoted : Has(cache, k))
    /\ [][ \A k \in promoted :
              (/\ lastOp'.op \in {"single", "batch"}
               /\ k \in Range(lastOp'.keys)
               /\ Has(cache, k)
               /\ now - Entry(cache, k).timestamp <= ttlMs)
              => /\ k \in lastOp'.fromMemory
                 /\ k \notin lastOp'.looked
                 /\ TextOf(k) \notin Range(lastOp'.sent)
         ]_vars
C10_MemoryHitAfterPromotion ==
    /\ lastOp.op = "single"
    /\ single.pc = "done"
    /\ cacheKey(single.text) \in promoted
    /\ lastOp.fromMemory = {cacheKey(single.text)}
    /\ lastOp.looked = {}
    /\ lastOp.sent = <<>>

\* ---- standard search, continued (Spec) ----

\* C11: a semantic search call starts only once the embedding has resolved,
\* and when the embedding settles every lexical call that is not skipped has
\* already been started.
C11_SemanticAfterEmbedding ==
    [][ /\ \A b \in Semantic :
              (branch[b].state = "notStarted" /\ branch'[b].state = "pending")
                  => embeddingPromise.state = "resolved"
        /\ (embeddingPromise.state = "pending" /\ embeddingPromise'.state # "pending")
              => \A b \in Lexical : ~Skipped(b) => branch[b].state \in {"pending", "ok", "failed"}
        /\ \A b \in Lexical :
              (branch[b].state = "notStarted" /\ branch'[b].state = "pending")
                  => embeddingPromise.state = "none"
      ]_vars
C11_LexicalAnsweredWhileEmbedding ==
    /\ spc = "awaitEmbedding"
    /\ embeddingPromise.state = "pending"
    /\ branch["kwBooks"].state = "ok"
    /\ \A b \in Semantic : branch[b].state = "notStarted"

\* ---- reranker (RerankSpec) ----

\* C12: whenever rerank or rerankUnifiedRefine reports timedOut, what it
\* returns is the first topN (per type: the first limit) items of its input,
\* in the input order.
C12_TimedOutIsTopN ==
    (rr.pc = "done" /\ rr.timedOut) =>
        /\ rr.fn = "rerank" => rr.out = Slice(rr.results, rr.topN)
        /\ rr.fn = "unified" =>
              \A t \in 1..3 : rr.outLists[t] = Slice(rr.lists[t], rr.limits[t])
C12_TimedOutWithSurplus ==
    /\ rr.pc = "done" /\ rr.fn = "rerank" /\ rr.timedOut
    /\ Len(rr.results) > rr.topN
    /\ rr.topN > 1

\* C13: a non-2xx answer of the LLM endpoint makes the reranker return the
\* original top-N and report timedOut = true. (Refuted: both rerankers return
\* the original top-N but report timedOut = false.)
C13_Non2xxReportsTimedOut ==
    (rr.pc = "done" /\ rr.reply = "status") => rr.timedOut


WithinTolerance(a, b) == Abs(a.fusedScore - b.fusedScore) <= FLOAT_TOLERANCE
HigherRrf(a, b) == a.rrfScore[1] * b.rrfScore[2] > b.rrfScore[1] * a.rrfScore[2]
\* a, listed before b, is where the final order puts it
PairInOrder(a, b) ==
    /\ Abs(a.fusedScore - b.fusedScore) > FLOAT_TOLERANCE => a.fusedScore > b.fusedScore
    /\ Abs(a.fusedScore - b.fusedScore) < FLOAT_TOLERANCE => ~HigherRrf(b, a)
TiesTransitive(items) ==
    \A a, b, c \in Range(items) :
        WithinTolerance(a, b) /\ WithinTolerance(b, c) => WithinTolerance(a, c)

C15_OneItemPerKeyWithItsRanks ==
    (/\ merge.pc # "called"
     /\ \A i \in DOMAIN merge.sem : merge.sem[i].semanticRank # Undefined
     /\ \A i \in DOMAIN merge.kw : merge.kw[i].keywordRank # Undefined) =>
        LET semKeys == {merge.sem[i].key : i \in DOMAIN merge.sem}
            kwKeys == {merge.kw[i].key : i \in DOMAIN merge.kw}
        IN /\ {merge.out[i].key : i \in DOMAIN merge.out} = semKeys \cup kwKeys
           /\ \A i, j \in DOMAIN merge.out : merge.out[i].key = merge.out[j].key => i = j
           /\ \A i \in DOMAIN merge.out :
                 /\ merge.out[i].semanticRank # Undefined <=> merge.out[i].key \in semKeys
                 /\ merge.out[i].keywordRank # Undefined <=> merge.out[i].key \in kwKeys
                 /\ merge.out[i].semanticRank # Undefined \/ merge.out[i].keywordRank # Undefined
           /\ merge.pc = "formatted" =>
                 \A i \in DOMAIN merge.out :
                    merge.matchTypes[i] =
                        IF merge.out[i].key \in semKeys \cap kwKeys THEN "both"
                        ELSE IF merge.out[i].key \in semKeys THEN "semantic" ELSE "keyword"

C15_KeyFoundByBothEngines ==
    /\ merge.pc = "formatted"
    /\ Len(merge.out) = 3
    /\ \A i \in DOMAIN merge.sem : merge.sem[i].semanticRank # Undefined
    /\ \A i \in DOMAIN merge.kw : merge.kw[i].keywordRank # Undefined
    /\ \E i \in DOMAIN merge.out : merge.matchTypes[i] = "both"


\* the lexical list in its order, truncated, with the normalized BM25 score
NormalizedTruncated(kw, limit) ==
    [i \in 1..(IF Len(kw) < limit THEN Len(kw) ELSE limit) |->
        [kw[i] EXCEPT !.score = normalizeBM25Score(
            IF kw[i].bm25Score # Undefined THEN The(kw[i].bm25Score) ELSE kw[i].score)]]

\* C16: in mode=keyword the output of each domain, books, ayahs and hadiths
\* alike, is the domain's lexical list in its original order, every item's score
\* set to its normalized BM25 value, truncated to the domain limit.
C16_KeywordModeNormalizesEveryDomain ==
    (std.pc = "merged" /\ std.mode = "keyword") =>
        \A d \in Domains :
           (std.include[d] /\ (d = "books" \/ ~std.bookId)) =>
               std.out[d] = NormalizedTruncated(std.kw[d], std.limit)


\* where key k stands in the call's lists: <<variant, 0-based rank>>
Occurrences(k) ==
    {<<v, r>> \in (DOMAIN mq.resultsPerQuery) \X (0..(MaxVariantLen + 1)) :
        /\ r < Len(mq.resultsPerQuery[v].results)
        /\ mq.resultsPerQuery[v].results[r + 1].key = k}
RECURSIVE SumOver(_)
SumOver(occ) ==
    IF occ = {} THEN <<0, 1>>
    ELSE LET o == CHOOSE x \in occ : TRUE
         IN RatAdd(<<mq.resultsPerQuery[o[1]].weight, 60 + o[2] + 1>>, SumOver(occ \ {o}))
OnePerKeySortedByWeightedRrf ==
    /\ {mq.out[i].key : i \in DOMAIN mq.out} =
          UNION {{mq.resultsPerQuery[v].results[p].key :
                    p \in DOMAIN mq.resultsPerQuery[v].results} :
                 v \in DOMAIN mq.resultsPerQuery}
    /\ \A i, j \in DOMAIN mq.out : mq.out[i].key = mq.out[j].key => i = j
    /\ \A i \in DOMAIN mq.out :
          LET total == SumOver(Occurrences(mq.out[i].key))
          IN mq.out[i].weightedRrfScore[1] * total[2] = total[1] * mq.out[i].weightedRrfScore[2]
    /\ \A i, j \in DOMAIN mq.out :
          i < j => ~RatLess(mq.out[i].weightedRrfScore, mq.out[j].weightedRrfScore)
\* a is in every variant, b in variant v only, and a holds b's rank in variant u
InEveryVariantAtRankOf(a, b, u, v) ==
    /\ a # b
    /\ \A w \in DOMAIN mq.resultsPerQuery : \E o \in Occurrences(a) : o[1] = w
    /\ Cardinality(Occurrences(b)) = 1
    /\ \E r \in 0..MaxVariantLen : <<v, r>> \in Occurrences(b) /\ <<u, r>> \in Occurrences(a)
PositionOf(k) == CHOOSE i \in DOMAIN mq.out : mq.out[i].key = k

\* C17 (as stated): with m >= 2 variants of positive weight the dedupe outputs
\* exactly one entry per distinct key, sorted by descending accumulated
\* weight/(60 + rank + 1), and an item appearing in every variant ranks above an
\* item appearing in only one variant at the same rank.
C17_InEveryVariantRanksAbove ==
    (mq.pc = "done" /\ Len(mq.resultsPerQuery) >= 2) =>
        /\ OnePerKeySortedByWeightedRrf
        /\ \A a, b \in FusionKeys : \A u, v \in DOMAIN mq.resultsPerQuery :
              InEveryVariantAtRankOf(a, b, u, v) => PositionOf(a) < PositionOf(b)

\* C17 (amended): one entry per distinct key, sorted by descending accumulated
\* weight/(60 + rank + 1); an item appearing in every variant ranks above an
\* item appearing in only one variant when it holds that item's rank in a
\* variant weighing at least as much as that item's variant.
C17_RanksAboveWhenWeightAtLeast ==
    (mq.pc = "done" /\ Len(mq.resultsPerQuery) >= 2) =>
        /\ OnePerKeySortedByWeightedRrf
        /\ \A a, b \in FusionKeys : \A u, v \in DOMAIN mq.resultsPerQuery :
              (/\ InEveryVariantAtRankOf(a, b, u, v)
               /\ mq.resultsPerQuery[u].weight >= mq.resultsPerQuery[v].weight)
                  => PositionOf(a) < PositionOf(b)

C17_SharedItemOvertakesHigherRanked ==
    /\ mq.pc = "done"
    /\ Len(mq.resultsPerQuery) >= 2
    /\ \E a, b \in FusionKeys : \E u, v \in DOMAIN mq.resultsPerQuery :
          /\ InEveryVariantAtRankOf(a, b, u, v)
          /\ mq.resultsPerQuery[u].weight >= mq.resultsPerQuery[v].weight
          /\ \E o \in Occurrences(a) : o[1] = v /\ o[2] = 1
          /\ PositionOf(a) < PositionOf(b)


\* C20: when a vector-store lookup of a search request fails with "Collection
\* not found" (and nothing else of the request fails), the request is answered
\* with status 503, not with a 200 carrying an empty branch and not with a 500.
C20_MissingCollectionIs503 ==
    (/\ spc = "responded"
     /\ \E b \in Semantic : branch[b].state = "failed" /\ branch[b].error = "Collection not found"
     /\ \A b \in Lexical : branch[b].state # "failed"
     /\ response.thrownBy # "handler")
        => response.status = 503


\* the request names no usable query or a mode outside the three
InvalidRequest ==
    \/ hd.q = Undefined
    \/ The(hd.q).letters = 0
    \/ The(hd.q).spaces + The(hd.q).letters > 500
    \/ hd.modeParam \notin {Undefined, Some(""), Some("hybrid"), Some("semantic"),
                            Some("keyword")}

\* C18: a request whose q is missing or blank, whose q is longer than 500
\* characters, or whose mode is not one of hybrid, semantic, keyword is answered
\* with status 400 and starts no pipeline operation (graph search, author
\* lookup, embedding, lexical or semantic search).
C18_InvalidRequestIs400 ==
    (hd.pc # "idle" /\ InvalidRequest) =>
        /\ hd.started = {}
        /\ hd.pc \in {"received", "responded"}
        /\ hd.pc = "responded" => hd.status = 400

C18_InvalidModeAnswered400 ==
    /\ hd.pc = "responded"
    /\ hd.status = 400
    /\ hd.modeParam = Some("invalid")
    /\ hd.q = Some([spaces |-> 1, letters |-> 1])

\* C19: in every successful response, on the standard and on the refine path
\* and in every mode, results has at most limit entries and count equals the
\* length of results.
C19_ResultsWithinLimit ==
    (hd.pc = "responded" /\ hd.status = 200) =>
        /\ hd.count = Len(hd.results)
        /\ IF hd.limit = {} THEN hd.results = <<>> ELSE Len(hd.results) <= The(hd.limit)

C19_RefineResultsCutToLimit ==
    /\ hd.pc = "responded"
    /\ hd.status = 200
    /\ hd.path = "refine"
    /\ hd.limit = {2}
    /\ hd.count = 2


\* C21: a failure of a translation repository lookup does not change the
\* outcome of the request: the response is successful and holds the same ranked
\* results in the same order, only without the missing translations.
C21_TranslationFailureStill200 ==
    (hd.pc = "responded" /\ hd.translation = "rejected") =>
        /\ hd.status = 200
        /\ hd.results = LimitResults(hd.searched, hd.limit)

\* C28: a response carries refined: true and expandedQueries exactly when the
\* refine path was executed for the request (refine requested, mode = hybrid,
\* no book-scope filter); a request served by the standard path carries no
\* refined flag.
C28_RefinedIffRefinePath ==
    (hd.pc = "responded" /\ hd.status = 200) =>
        /\ hd.refined <=> hd.path = "refine"
        /\ hd.responseExpanded # Undefined <=> hd.path = "refine"

\* C29: when the graph context resolver yields a boost list for the request,
\* the ayahs array of the response is the boosted list.
C29_ResponseAyahsAreBoosted ==
    (hd.pc = "responded" /\ hd.status = 200 /\ hd.boost # {}) =>
        /\ Len(hd.ayahs) = Len(hd.ayahsRaw)
        /\ \A i \in DOMAIN hd.ayahs :
              /\ hd.ayahs[i].id = hd.ayahsRaw[i].id
              /\ hd.ayahs[i].score = hd.ayahsRaw[i].score

\* C30: for every request that passes validation the parsed limit lies in
\* [1, 100] and the parsed bookLimit in [5, 50], whatever the limit and
\* bookLimit parameters contain, non-numeric text included.
C30_ParsedLimitsInRange ==
    hd.pc \in {"parsed", "early", "searched", "translated"} =>
        /\ hd.limit # {} /\ The(hd.limit) \in 1..100
        /\ hd.bookLimit # {} /\ The(hd.bookLimit) \in 5..50


\* C22: text normalization is idempotent: normalizing a normalized string
\* leaves it as it is, for every string, strings with a diacritic or a
\* standalone hamza between whitespace characters included.
C22_NormalizationIdempotent ==
    nz.pc = "twice" => nz.twice = nz.once

C22_HamzaBetweenSpacesNormalizedTwice ==
    /\ nz.pc = "twice"
    /\ nz.text = <<"beh", " ", "hamza", "tab", "alefHamza">>
    /\ nz.once = <<"beh", " ", "alef">>


\* C23: for a cache with evictionCount >= 1, after any sequence of writes that
\* includes batch writes (setMany with any number of entries, alone or mixed
\* with set), the number of stored entries never exceeds maxSize.
C23_SizeBoundedUnderSetMany ==
    evictionCount >= 1 => Cardinality({cache[i].key : i \in DOMAIN cache}) <= maxSize


\* C24: getIndexedBookIds returns nil whenever any of its back-end queries
\* fails during a refresh (the metadata-store count, the lexical-index
\* aggregation, or the vector-store count of any single book), and a refresh
\* in which a query failed never stores a set in the 5-minute cache.
C24_AnyFailureReturnsNil ==
    (/\ catalog.call.served = "refresh"
     /\ (catalog.call.dbFailed \/ catalog.call.esFailed \/ catalog.call.countFailed # {})) =>
        /\ catalog.call.result = Undefined
        /\ ~catalog.call.stored


\* the reply is an index array that names a document that does not exist or
\* names one document twice
OutOfRange(ranking, n) == \E i \in DOMAIN ranking : ranking[i] < 1 \/ ranking[i] > n
Repeated(ranking) == \E i, j \in DOMAIN ranking : i # j /\ ranking[i] = ranking[j]

\* C25: if the index array returned by the reranker LLM contains an
\* out-of-range index or a repeated index, rerank returns the candidates in
\* their original order (the first top-N of the input), the same result as for
\* an unparseable reply.
C25_InvalidIndexFallsBack ==
    (/\ rr.pc = "done" /\ rr.fn = "rerank" /\ rr.reply = "ranking"
     /\ (OutOfRange(rr.ranking, Len(rr.results)) \/ Repeated(rr.ranking))) =>
        rr.out = Fallback(rr.results, rr.topN)

Ids(seq) == {seq[i].id : i \in DOMAIN seq}
NoRepeats(seq) == \A i, j \in DOMAIN seq : i # j => seq[i].id # seq[j].id

\* C26: for every reply of the LLM, rerankUnifiedRefine returns three lists in
\* which books, ayahs and hadiths each hold at most their per-type limit, every
\* returned item is one of the first `limit` candidates of its own type, and
\* no candidate is returned more than once.
C26_UnifiedWithinLimitsNoRepeats ==
    (rr.pc = "done" /\ rr.fn = "unified") =>
        \A t \in 1..3 :
            /\ Len(rr.outLists[t]) <= rr.limits[t]
            /\ Ids(rr.outLists[t]) \subseteq Ids(Slice(rr.lists[t], rr.limits[t]))
            /\ NoRepeats(rr.outLists[t])

\* C27: for every reply of the LLM (any index array, including out-of-range,
\* repeated or missing indices), the single-list rerank returns exactly
\* min(topN, n) items for an input of n distinct candidates, each taken from
\* the input and none repeated.
C27_RerankReturnsMinTopN ==
    (rr.pc = "done" /\ rr.fn = "rerank") =>
        /\ Len(rr.out) = Min(rr.topN, Len(rr.results))
        /\ \A i \in DOMAIN rr.out : rr.out[i] \in Range(rr.results)
        /\ NoRepeats(rr.out)

C27_RepeatedAndMissingIndicesFilled ==
    /\ rr.pc = "done" /\ rr.fn = "rerank" /\ rr.reply = "ranking"
    /\ Len(rr.results) = 3 /\ rr.topN = 3
    /\ rr.ranking = <<3, 3, 4>>
    /\ rr.out = <<rr.results[3], rr.results[1], rr.results[2]>>

====
